---- MODULE Spec2Model ----
(***************************************************************************)
(* A model of redis-clone-cpp: the command codec (redis_utils.cpp), the    *)
(* single-threaded select() server RedisServerEventLoop with its snapshot  *)
(* persistence (server.cpp), the clients that talk to it, the snapshot     *)
(* child processes it forks and the two files they touch, and the          *)
(* thread-per-connection server RedisServer (server.cpp).                  *)
(*                                                                         *)
(* A std::string is a sequence of bytes; a byte is a one-character string, *)
(* and NUL stands for the byte 0.                                          *)
(***************************************************************************)
EXTENDS Integers, Sequences, FiniteSets, TLC

(***************************************************************************)
(* Bytes and strings                                                       *)
(***************************************************************************)
NUL == "NUL"

\* std::isspace in the classic locale, as operator>> of std::istream uses it.
IsSpace(c) == c \in {" ", "\t", "\n", "\r"}

LowerCase == <<"a", "b", "c", "d", "e", "f", "g", "h", "i", "j", "k", "l", "m",
               "n", "o", "p", "q", "r", "s", "t", "u", "v", "w", "x", "y", "z">>
UpperCase == <<"A", "B", "C", "D", "E", "F", "G", "H", "I", "J", "K", "L", "M",
               "N", "O", "P", "Q", "R", "S", "T", "U", "V", "W", "X", "Y", "Z">>

\* std::toupper on one ASCII byte.
ToUpper(c) ==
    IF \E i \in 1..26 : LowerCase[i] = c
    THEN UpperCase[CHOOSE i \in 1..26 : LowerCase[i] = c]
    ELSE c

Digits == <<"0", "1", "2", "3", "4", "5", "6", "7", "8", "9">>

\* std::to_string of a non-negative integer.
RECURSIVE to_string(_)
to_string(n) ==
    IF n < 10 THEN <<Digits[n + 1]>>
    ELSE to_string(n \div 10) \o <<Digits[(n % 10) + 1]>>

\* std::string::find(pat, from) with 1-based positions; 0 stands for npos.
Find(s, pat, from) ==
    LET hits == {i \in from..(Len(s) - Len(pat) + 1) :
                    SubSeq(s, i, i + Len(pat) - 1) = pat}
    IN IF hits = {} THEN 0 ELSE CHOOSE i \in hits : \A j \in hits : i <= j

\* What "std::string += const char*" appends from a buffer holding the bytes
\* buf followed by a terminating 0: the bytes before the first 0.
CString(buf) ==
    LET z == Find(buf, <<NUL>>, 1)
    IN IF z = 0 THEN buf ELSE SubSeq(buf, 1, z - 1)

(***************************************************************************)
(* The command codec: redis_utils.cpp                                      *)
(***************************************************************************)
\* The first position >= i that holds no whitespace (Len(s) + 1 if none).
SkipSpace(s, i) ==
    LET rest == {j \in i..Len(s) : ~IsSpace(s[j])}
    IN IF rest = {} THEN Len(s) + 1 ELSE CHOOSE j \in rest : \A k \in rest : j <= k

\* The first position >= i that holds whitespace (Len(s) + 1 if none).
TokenEnd(s, i) ==
    LET rest == {j \in i..Len(s) : IsSpace(s[j])}
    IN IF rest = {} THEN Len(s) + 1 ELSE CHOOSE j \in rest : \A k \in rest : j <= k

\* A variant that differs from the source: the verb is left as it was typed.
extract_command_case_sensitive(input) ==
    LET c1 == SkipSpace(input, 1)
        c2 == TokenEnd(input, c1)
        k1 == SkipSpace(input, c2)
        k2 == TokenEnd(input, k1)
        v1 == SkipSpace(input, k2)
        v2 == TokenEnd(input, v1)
        cmd == SubSeq(input, c1, c2 - 1)
    IN [command |-> cmd,
        key     |-> SubSeq(input, k1, k2 - 1),
        value   |-> SubSeq(input, v1, v2 - 1)]

\* extract_command: the first three whitespace-separated tokens, the first one
\* upper-cased byte by byte.
extract_command(input) ==
    LET c1 == SkipSpace(input, 1)
        c2 == TokenEnd(input, c1)
        k1 == SkipSpace(input, c2)
        k2 == TokenEnd(input, k1)
        v1 == SkipSpace(input, k2)
        v2 == TokenEnd(input, v1)
        cmd == SubSeq(input, c1, c2 - 1)
    IN [command |-> [i \in 1..Len(cmd) |-> ToUpper(cmd[i])],
        key     |-> SubSeq(input, k1, k2 - 1),
        value   |-> SubSeq(input, v1, v2 - 1)]

SET == <<"S", "E", "T">>
GET == <<"G", "E", "T">>
DEL == <<"D", "E", "L">>
EXISTS == <<"E", "X", "I", "S", "T", "S">>
QUIT == <<"Q", "U", "I", "T">>
BGSAVE == <<"B", "G", "S", "A", "V", "E">>

CRLF == <<"\r", "\n">>
ReplyOK == <<"+", "O", "K">> \o CRLF
ReplyNull == <<"$", "-", "1">> \o CRLF
ReplyBGSAVE == <<"+", "B", "G", "S", "A", "V", "E">> \o CRLF
ReplyStarted ==
    <<"+", "B", "a", "c", "k", "g", "r", "o", "u", "n", "d", " ", "s", "a", "v",
      "i", "n", "g", " ", "s", "t", "a", "r", "t", "e", "d">> \o CRLF
ReplySaveFailed ==
    <<"-", "E", "R", "R", " ", "B", "a", "c", "k", "g", "r", "o", "u", "n", "d",
      " ", "s", "a", "v", "e", " ", "f", "a", "i", "l", "e", "d">> \o CRLF
ReplyInteger(n) == <<":">> \o to_string(n) \o CRLF
ReplyBulk(v) == <<"$">> \o to_string(Len(v)) \o CRLF \o v \o CRLF
ReplyWrongArgs(name) ==
    <<"-", "E", "R", "R", " ", "w", "r", "o", "n", "g", " ", "n", "u", "m", "b",
      "e", "r", " ", "o", "f", " ", "a", "r", "g", "u", "m", "e", "n", "t", "s",
      " ", "f", "o", "r", " ", "'">> \o name
    \o <<"'", " ", "c", "o", "m", "m", "a", "n", "d">> \o CRLF
ReplyUnknown(verb) ==
    <<"-", "E", "R", "R", " ", "u", "n", "k", "n", "o", "w", "n", " ", "c", "o",
      "m", "m", "a", "n", "d", " ", "'">> \o verb \o <<"'">> \o CRLF

\* std::unordered_map<std::string, std::string>: a function on the keys present.
EmptyStore == [k \in {} |-> <<>>]

\* Variants that differ from the source: an insert that keeps the value of a key
\* already present, and an erase that removes nothing.
StoreInsert(data, k, v) ==
    [x \in DOMAIN data \cup {k} |-> IF x \in DOMAIN data THEN data[x] ELSE v]
StoreKeep(data, k) == data

\* data[k] = v and data.erase(k)
StoreSet(data, k, v) == [x \in DOMAIN data \cup {k} |-> IF x = k THEN v ELSE data[x]]
StoreErase(data, k) == [x \in DOMAIN data \ {k} |-> data[x]]

\* process_command_with_store: the reply and the store it leaves.
process_command_with_store(parts, data) ==
    IF parts.command = SET THEN
        IF parts.key = <<>> \/ parts.value = <<>>
        THEN [reply |-> ReplyWrongArgs(<<"s", "e", "t">>), data |-> data]
        ELSE [reply |-> ReplyOK, data |-> StoreSet(data, parts.key, parts.value)]
    ELSE IF parts.command = GET THEN
        IF parts.key = <<>>
        THEN [reply |-> ReplyWrongArgs(<<"g", "e", "t">>), data |-> data]
        ELSE IF parts.key \in DOMAIN data
        THEN [reply |-> ReplyBulk(data[parts.key]), data |-> data]
        ELSE [reply |-> ReplyNull, data |-> data]
    ELSE IF parts.command = DEL THEN
        IF parts.key = <<>>
        THEN [reply |-> ReplyWrongArgs(<<"d", "e", "l">>), data |-> data]
        ELSE [reply |-> ReplyInteger(IF parts.key \in DOMAIN data THEN 1 ELSE 0),
              data |-> StoreErase(data, parts.key)]
    ELSE IF parts.command = EXISTS THEN
        IF parts.key = <<>>
        THEN [reply |-> ReplyWrongArgs(<<"e", "x", "i", "s", "t", "s">>), data |-> data]
        ELSE [reply |-> ReplyInteger(IF parts.key \in DOMAIN data THEN 1 ELSE 0),
              data |-> data]
    ELSE IF parts.command = QUIT THEN [reply |-> ReplyOK, data |-> data]
    ELSE IF parts.command = BGSAVE THEN [reply |-> ReplyBGSAVE, data |-> data]
    ELSE [reply |-> ReplyUnknown(parts.command), data |-> data]

\* A variant that differs from the source: every SET and DEL is counted as a
\* change, whatever the reply.
process_command_counting_all(command, data, changes, fork_ok) ==
    LET parts == extract_command(command)
        r == process_command_with_store(parts, data)
    IN IF parts.command = BGSAVE
       THEN [reply |-> IF fork_ok THEN ReplyStarted ELSE ReplySaveFailed,
             data |-> r.data, changes |-> changes, forked |-> fork_ok]
       ELSE [reply |-> r.reply, data |-> r.data,
             changes |-> IF parts.command \in {SET, DEL} THEN changes + 1 ELSE changes,
             forked |-> FALSE]

\* A variant that differs from the source: BGSAVE answers that the save has
\* started without looking at the result of fork().
process_command_bgsave_unchecked(command, data, changes, fork_ok) ==
    LET parts == extract_command(command)
        r == process_command_with_store(parts, data)
        counted == (SubSeq(r.reply, 1, 3) = <<"+", "O", "K">>
                    \/ SubSeq(r.reply, 1, 2) = <<":", "1">>)
                   /\ parts.command \in {SET, DEL}
    IN IF parts.command = BGSAVE
       THEN [reply |-> ReplyStarted,
             data |-> r.data, changes |-> changes, forked |-> fork_ok]
       ELSE [reply |-> r.reply, data |-> r.data,
             changes |-> IF counted THEN changes + 1 ELSE changes,
             forked |-> FALSE]

\* A variant that differs from the source: a change is counted for every reply
\* that starts with +OK or :1, whatever the command.
process_command_counting_by_reply(command, data, changes, fork_ok) ==
    LET parts == extract_command(command)
        r == process_command_with_store(parts, data)
        counted == SubSeq(r.reply, 1, 3) = <<"+", "O", "K">>
                   \/ SubSeq(r.reply, 1, 2) = <<":", "1">>
    IN IF parts.command = BGSAVE
       THEN [reply |-> IF fork_ok THEN ReplyStarted ELSE ReplySaveFailed,
             data |-> r.data, changes |-> changes, forked |-> fork_ok]
       ELSE [reply |-> r.reply, data |-> r.data,
             changes |-> IF counted THEN changes + 1 ELSE changes,
             forked |-> FALSE]

\* RedisServerEventLoop::process_command with the fork of background_save folded
\* in: fork_ok says whether fork() succeeds.  forked tells that a snapshot child
\* was started from the store as it is at that moment.
process_command(command, data, changes, fork_ok) ==
    LET parts == extract_command(command)
        r == process_command_with_store(parts, data)
        counted == (SubSeq(r.reply, 1, 3) = <<"+", "O", "K">>
                    \/ SubSeq(r.reply, 1, 2) = <<":", "1">>)
                   /\ parts.command \in {SET, DEL}
    IN IF parts.command = BGSAVE
       THEN [reply |-> IF fork_ok THEN ReplyStarted ELSE ReplySaveFailed,
             data |-> r.data, changes |-> changes, forked |-> fork_ok]
       ELSE [reply |-> r.reply, data |-> r.data,
             changes |-> IF counted THEN changes + 1 ELSE changes,
             forked |-> FALSE]

\* A variant that differs from the source: the first row asks for one change.
should_save_snapshot_one_change(seconds, changes) ==
    \/ seconds >= 900 /\ changes >= 1
    \/ seconds >= 300 /\ changes >= 10
    \/ seconds >= 60 /\ changes >= 10000

\* RedisServerEventLoop::should_save_snapshot
should_save_snapshot(seconds, changes) ==
    \/ seconds >= 900 /\ changes > 1
    \/ seconds >= 300 /\ changes >= 10
    \/ seconds >= 60 /\ changes >= 10000

(***************************************************************************)
(* The snapshot file: save_snapshot_to_file and load_snapshot_from_file    *)
(***************************************************************************)
Quote == <<"\"">>

\* What std::put_time writes for "%Y-%m-%dT%H:%M:%SZ": twenty bytes, none of them
\* a quote or a line break.  The loader never looks at the line that holds them.
Timestamp == <<"2", "0", "2", "6", "-", "1", "1", "-", "0", "6", "T",
               "1", "2", ":", "0", "0", ":", "0", "0", "Z">>

\* The orders in which a range-for may visit the keys of an unordered_map.
Orders(keys) ==
    {o \in [1..Cardinality(keys) -> keys] :
        \A i, j \in 1..Cardinality(keys) : i # j => o[i] # o[j]}

\* The key-value lines of the data section, for the keys order[i..].
RECURSIVE SnapshotEntries(_, _, _)
SnapshotEntries(data, order, i) ==
    IF i > Len(order) THEN <<>>
    ELSE (IF i > 1 THEN <<",", "\n">> ELSE <<>>)
         \o <<" ", " ", " ", " ">> \o Quote \o order[i] \o Quote \o <<":", " ">>
         \o Quote \o data[order[i]] \o Quote
         \o SnapshotEntries(data, order, i + 1)

\* The bytes save_snapshot_to_file streams into data/dump.json.tmp.
SnapshotText(data, order) ==
    <<"{", "\n">>
    \o <<" ", " ">> \o Quote \o <<"m", "e", "t", "a", "d", "a", "t", "a">> \o Quote
       \o <<":", " ", "{", "\n">>
    \o <<" ", " ", " ", " ">> \o Quote \o <<"v", "e", "r", "s", "i", "o", "n">> \o Quote
       \o <<":", " ">> \o Quote \o <<"1", ".", "0">> \o Quote \o <<",", "\n">>
    \o <<" ", " ", " ", " ">> \o Quote \o <<"t", "i", "m", "e", "s", "t", "a", "m", "p">>
       \o Quote \o <<":", " ">> \o Quote \o Timestamp \o Quote \o <<",", "\n">>
    \o <<" ", " ", " ", " ">> \o Quote \o <<"k", "e", "y", "_", "c", "o", "u", "n", "t">>
       \o Quote \o <<":", " ">> \o to_string(Cardinality(DOMAIN data)) \o <<"\n">>
    \o <<" ", " ", "}", ",", "\n">>
    \o <<" ", " ">> \o Quote \o <<"d", "a", "t", "a">> \o Quote \o <<":", " ", "{", "\n">>
    \o SnapshotEntries(data, order, 1)
    \o <<"\n", " ", " ", "}", "\n">>
    \o <<"}", "\n">>

\* The lines std::getline reads from a file holding text.
RECURSIVE GetLines(_)
GetLines(text) ==
    LET nl == Find(text, <<"\n">>, 1)
    IN IF text = <<>> THEN <<>>
       ELSE IF nl = 0 THEN <<text>>
       ELSE <<SubSeq(text, 1, nl - 1)>> \o GetLines(SubSeq(text, nl + 1, Len(text)))

\* The while loop of load_snapshot_from_file from line i on.
RECURSIVE LoadLines(_, _, _, _)
LoadLines(lines, i, in_data_section, data) ==
    IF i > Len(lines) THEN data
    ELSE
    LET line == lines[i]
        key_start == Find(line, Quote, 1)
        key_end == Find(line, Quote, key_start + 1)
        value_start == Find(line, Quote, key_end + 1)
        value_end == Find(line, Quote, value_start + 1)
        key == SubSeq(line, key_start + 1, key_end - 1)
        value == SubSeq(line, value_start + 1, value_end - 1)
    IN IF Find(line, Quote \o <<"d", "a", "t", "a">> \o Quote \o <<":">>, 1) # 0
       THEN LoadLines(lines, i + 1, TRUE, data)
       ELSE IF ~in_data_section
       THEN LoadLines(lines, i + 1, in_data_section, data)
       ELSE IF Find(line, <<"}">>, 1) # 0 /\ Find(line, Quote, 1) = 0
       THEN data
       ELSE IF key_start = 0 \/ key_end = 0 \/ value_start = 0 \/ value_end = 0
       THEN LoadLines(lines, i + 1, in_data_section, data)
       ELSE LoadLines(lines, i + 1, in_data_section, StoreSet(data, key, value))

\* load_snapshot_from_file into the store data; file is data/dump.json.
load_snapshot_from_file(file, data) ==
    IF ~file.exists THEN data
    ELSE LoadLines(GetLines(file.content), 1, FALSE, data)

(***************************************************************************)
(* State                                                                   *)
(***************************************************************************)
MaxClients == 2      \* socket descriptors the server process can hold
MaxChildren == 2     \* processes the server may have forked and not reaped
Fds == 1..MaxClients
server_fd_ == 0      \* stands for the listening socket in read_fds
Slots == 1..MaxChildren
NoFile == [exists |-> FALSE, content |-> <<>>]
NoChild == [pc |-> "free", cdata |-> EmptyStore, where |-> "none"]
NoDispatch == [fd |-> 0, parts |-> extract_command(<<>>), reply |-> <<>>,
               before |-> EmptyStore, changes_before |-> 0, disconnect_before |-> FALSE]
NoCheck == [seconds |-> 0, changes |-> 0, fired |-> FALSE, forked |-> FALSE]

\* A descriptor no thread of RedisServer serves: pc tells where the thread is,
\* command_buffer, complete_command and response are its locals, seen is the
\* database as the command under execution found it, conn the number of the
\* connection among those accepted.
NoThread == [pc |-> "none", conn |-> 0, command_buffer |-> <<>>,
             complete_command |-> <<>>, response |-> <<>>, seen |-> EmptyStore]

VARIABLES
    \* RedisServerEventLoop
    data_, changes_since_save, seconds_since_last_save, clients_,
    \* main.cpp
    g_running,
    \* where run() is, and its locals
    pc, read_fds, cur, pending, clients_to_disconnect,
    \* the kernel: descriptors, connections waiting in the listen queue, bytes
    \* sent by each client and not yet read, whether the client closed its end
    open_fds, backlog, inbox, peer_closed,
    \* the clients: what each still intends to send
    script,
    \* snapshot children and the files data/dump.json.tmp and data/dump.json
    children, tmp_file, dump_file,
    \* history: bytes the server wrote to each socket, bytes it read from it, the
    \* frames it dispatched, the bytes it put in write_buffer, the reference
    \* replies, the last dispatch, the last successful mutation of each key, the
    \* stores snapshot children were forked from, the last trigger check, the
    \* number of process starts, and the number of successful SET and DEL
    \* commands since a snapshot child was last forked
    sock_out, rcvd, frames, enq, expected, last_dispatch, last_mutation, snaps,
    last_check, connects, starts, mutations_since_fork,
    \* the file named data/appendonly.aof
    aof_file,
    \* history: how many times run() has entered select since g_running was cleared
    waits_after_clear,
    \* RedisServer, the thread-per-connection server: the thread of each
    \* connection, the database and the holder of db_mutex_ (0 when free)
    threads, db_, db_mutex_,
    \* history: the commands the threads executed, in the order of execution
    executed

server_vars == <<data_, changes_since_save, seconds_since_last_save, clients_>>
loop_vars == <<pc, read_fds, cur, pending, clients_to_disconnect>>
kernel_vars == <<open_fds, backlog, inbox, peer_closed>>
file_vars == <<children, tmp_file, dump_file>>
conn_history == <<sock_out, rcvd, frames, enq, expected>>
dispatch_history == <<conn_history, last_dispatch, last_mutation, snaps, last_check,
                      connects, starts, mutations_since_fork, aof_file>>
history == <<dispatch_history, waits_after_clear>>
thread_vars == <<threads, db_, db_mutex_, executed>>
vars == <<server_vars, g_running, loop_vars, kernel_vars, script, file_vars, history,
          thread_vars>>

Min(S) == CHOOSE i \in S : \A j \in S : i <= j

NoClients == [fd \in {} |-> 0]
EmptyPerFd == [fd \in Fds |-> <<>>]

\* A server process at the top of its loop, with no connection: its store is the
\* one loaded from the file dump, and nothing has been dispatched or checked.
Idle(dump) ==
    /\ data_ = load_snapshot_from_file(dump, EmptyStore)
    /\ clients_ = NoClients
    /\ g_running = TRUE
    /\ pc = "top"
    /\ read_fds = {}
    /\ cur = 0
    /\ pending = {}
    /\ clients_to_disconnect = {}
    /\ open_fds = {server_fd_}
    /\ backlog = <<>>
    /\ inbox = EmptyPerFd
    /\ peer_closed = [fd \in Fds |-> FALSE]
    /\ script = EmptyPerFd
    /\ sock_out = EmptyPerFd
    /\ rcvd = EmptyPerFd
    /\ frames = EmptyPerFd
    /\ enq = EmptyPerFd
    /\ expected = EmptyPerFd
    /\ last_dispatch = NoDispatch
    /\ last_check = NoCheck
    /\ connects = 0
    /\ threads = [fd \in Fds |-> NoThread]
    /\ db_ = EmptyStore
    /\ db_mutex_ = 0
    /\ executed = <<>>

\* The state of a process right after the constructor RedisServerEventLoop(port)
\* ran with data/dump.json being the file dump.
Constructed(dump) ==
    /\ Idle(dump)
    /\ changes_since_save = 0
    /\ seconds_since_last_save = 0

Init ==
    /\ Constructed(NoFile)
    /\ children = [c \in Slots |-> NoChild]
    /\ tmp_file = NoFile
    /\ dump_file = NoFile
    /\ last_mutation = EmptyStore
    /\ snaps = {}
    /\ starts = 1
    /\ mutations_since_fork = 0
    /\ aof_file = NoFile
    /\ waits_after_clear = 0

(***************************************************************************)
(* The clients                                                             *)
(***************************************************************************)
\* A client connects; it will send the byte streams of one of the scripts.
ClientConnect(scripts, max_connects) ==
    /\ connects < max_connects
    /\ backlog = <<>>
    /\ \E sc \in scripts : backlog' = Append(backlog, sc)
    /\ connects' = connects + 1
    /\ UNCHANGED <<server_vars, g_running, loop_vars, open_fds, inbox, peer_closed,
                   script, file_vars, conn_history, last_dispatch, last_mutation,
                   snaps, mutations_since_fork, last_check, starts, aof_file,
                   waits_after_clear,
                   thread_vars>>

\* The client on fd sends the next stream of its script.
ClientSend(fd) ==
    /\ fd \in open_fds
    /\ ~peer_closed[fd]
    /\ script[fd] # <<>>
    /\ inbox' = [inbox EXCEPT ![fd] = @ \o Head(script[fd])]
    /\ script' = [script EXCEPT ![fd] = Tail(@)]
    /\ UNCHANGED <<server_vars, g_running, loop_vars, open_fds, backlog, peer_closed,
                   file_vars, history,
                   thread_vars>>

\* The client on fd, having sent everything, closes its end.
ClientClose(fd) ==
    /\ fd \in open_fds
    /\ ~peer_closed[fd]
    /\ script[fd] = <<>>
    /\ peer_closed' = [peer_closed EXCEPT ![fd] = TRUE]
    /\ UNCHANGED <<server_vars, g_running, loop_vars, open_fds, backlog, inbox,
                   script, file_vars, history,
                   thread_vars>>

(***************************************************************************)
(* RedisServerEventLoop::run                                               *)
(***************************************************************************)
\* A variant that differs from the source: the loop goes on to select when it
\* has work in its registry, whatever the flag says.
LoopTopWhileClients ==
    /\ pc = "top"
    /\ pc' = IF g_running \/ clients_ # NoClients THEN "select_call" ELSE "shutdown"
    /\ UNCHANGED <<server_vars, g_running, read_fds, cur, pending,
                   clients_to_disconnect, kernel_vars, script, file_vars, history,
                   thread_vars>>

\* while (g_running): the test of the flag, then the building of read_fds.
LoopTop ==
    /\ pc = "top"
    /\ pc' = IF g_running THEN "select_call" ELSE "shutdown"
    /\ UNCHANGED <<server_vars, g_running, read_fds, cur, pending,
                   clients_to_disconnect, kernel_vars, script, file_vars, history,
                   thread_vars>>

\* The thread enters select() and blocks.
SelectCall ==
    /\ pc = "select_call"
    /\ pc' = "select_wait"
    /\ waits_after_clear' = IF g_running THEN waits_after_clear
                            ELSE waits_after_clear + 1
    /\ UNCHANGED <<server_vars, g_running, read_fds, cur, pending,
                   clients_to_disconnect, kernel_vars, script, file_vars,
                   dispatch_history,
                   thread_vars>>

Readable(fd) ==
    IF fd = server_fd_ THEN backlog # <<>>
    ELSE inbox[fd] # <<>> \/ peer_closed[fd]

\* select() returns the monitored descriptors that are readable.
SelectReturn ==
    /\ pc = "select_wait"
    /\ \E fd \in {server_fd_} \cup DOMAIN clients_ : Readable(fd)
    /\ read_fds' = {fd \in {server_fd_} \cup DOMAIN clients_ : Readable(fd)}
    /\ pc' = "accept"
    /\ UNCHANGED <<server_vars, g_running, cur, pending, clients_to_disconnect,
                   kernel_vars, script, file_vars, history,
                   thread_vars>>

\* if (FD_ISSET(server_fd_, &read_fds)) accept_new_connections();
\* accept() gives the lowest free descriptor and fails when there is none.
AcceptStep ==
    /\ pc = "accept"
    /\ pc' = "read"
    /\ read_fds' = read_fds \ {server_fd_}
    /\ IF server_fd_ \in read_fds /\ backlog # <<>> /\ Fds \ open_fds # {}
       THEN LET client_fd == Min(Fds \ open_fds)
            IN /\ clients_' = [fd \in DOMAIN clients_ \cup {client_fd} |->
                                 IF fd = client_fd
                                 THEN [fd |-> client_fd, read_buffer |-> <<>>,
                                       write_buffer |-> <<>>,
                                       should_disconnect |-> FALSE]
                                 ELSE clients_[fd]]
               /\ open_fds' = open_fds \cup {client_fd}
               /\ backlog' = Tail(backlog)
               /\ script' = [script EXCEPT ![client_fd] = Head(backlog)]
               /\ inbox' = [inbox EXCEPT ![client_fd] = <<>>]
               /\ peer_closed' = [peer_closed EXCEPT ![client_fd] = FALSE]
               /\ sock_out' = [sock_out EXCEPT ![client_fd] = <<>>]
               /\ rcvd' = [rcvd EXCEPT ![client_fd] = <<>>]
               /\ frames' = [frames EXCEPT ![client_fd] = <<>>]
               /\ enq' = [enq EXCEPT ![client_fd] = <<>>]
               /\ expected' = [expected EXCEPT ![client_fd] = <<>>]
       ELSE UNCHANGED <<clients_, kernel_vars, script, conn_history>>
    /\ UNCHANGED <<data_, changes_since_save, seconds_since_last_save, g_running,
                   cur, pending, clients_to_disconnect, file_vars, last_dispatch,
                   last_mutation, snaps, mutations_since_fork, last_check, connects, starts, aof_file,
                   waits_after_clear,
                   thread_vars>>

\* sizeof(buffer) in handle_client_data: recv takes at most BufferSize - 1 bytes.
BufferSize == 1024

\* The reference of the framing contract: the replies to the newline-terminated
\* commands of the byte stream seg, each executed by process_command against the
\* store its predecessors left (QUIT answered +OK), starting from data.
RECURSIVE CommandReplies(_, _)
CommandReplies(seg, data) ==
    LET nl == Find(seg, <<"\n">>, 1)
        line == SubSeq(seg, 1, nl - 1)
        command == IF line # <<>> /\ line[Len(line)] = "\r"
                   THEN SubSeq(line, 1, Len(line) - 1) ELSE line
        r == process_command(command, data, 0, TRUE)
        rest == SubSeq(seg, nl + 1, Len(seg))
    IN IF nl = 0 THEN <<>>
       ELSE IF command = <<>> THEN CommandReplies(rest, data)
       ELSE IF extract_command(command).command = QUIT
       THEN ReplyOK \o CommandReplies(rest, data)
       ELSE r.reply \o CommandReplies(rest, r.data)

\* The bytes of stream after its last line break.
RECURSIVE UnterminatedTail(_)
UnterminatedTail(stream) ==
    LET nl == Find(stream, <<"\n">>, 1)
    IN IF nl = 0 THEN stream
       ELSE UnterminatedTail(SubSeq(stream, nl + 1, Len(stream)))

\* The sizes recv may return for fd: all that is there, or with split any part of it.
RecvSizes(fd, split) ==
    LET avail == Min({Len(inbox[fd]), BufferSize - 1})
    IN IF split THEN 1..avail ELSE {avail}

\* handle_client_data up to the framing loop: recv, then either the disconnect
\* mark or the append of the buffer, as a C string, to read_buffer.
RecvStep(client_fd, split) ==
    /\ pc = "read"
    /\ client_fd \in read_fds \cap DOMAIN clients_
    /\ read_fds' = read_fds \ {client_fd}
    /\ IF inbox[client_fd] = <<>>
       THEN \* bytes_read <= 0
            /\ clients_' = [clients_ EXCEPT ![client_fd].should_disconnect = TRUE]
            /\ UNCHANGED <<pc, cur, inbox, rcvd, expected>>
       ELSE \E bytes_read \in RecvSizes(client_fd, split) :
            LET buffer == SubSeq(inbox[client_fd], 1, bytes_read)
            IN /\ inbox' = [inbox EXCEPT ![client_fd] =
                               SubSeq(@, bytes_read + 1, Len(@))]
               /\ clients_' = [clients_ EXCEPT ![client_fd].read_buffer =
                                  @ \o CString(buffer)]
               /\ rcvd' = [rcvd EXCEPT ![client_fd] = @ \o buffer]
               /\ expected' = [expected EXCEPT ![client_fd] = @ \o
                      CommandReplies(UnterminatedTail(rcvd[client_fd]) \o buffer, data_)]
               /\ cur' = client_fd
               /\ pc' = "frames"
    /\ UNCHANGED <<data_, changes_since_save, seconds_since_last_save, g_running,
                   pending, clients_to_disconnect, open_fds, backlog, peer_closed,
                   script, file_vars, sock_out, frames, enq, last_dispatch,
                   last_mutation, snaps, mutations_since_fork, last_check, connects, starts, aof_file,
                   waits_after_clear,
                   thread_vars>>

\* fork(): the child gets the lowest free process slot; with none free, or with
\* fork_ok false, fork fails.
CanFork(fork_ok) == fork_ok /\ \E c \in Slots : children[c].pc = "free"
Forked(store) ==
    [children EXCEPT ![Min({c \in Slots : children[c].pc = "free"})] =
        [pc |-> "open", cdata |-> store, where |-> "none"]]

\* One turn of the while loop of handle_client_data for the client cur: the loop
\* ends when read_buffer holds no line break, else one line is taken out and,
\* unless empty, answered.
FrameStep(fork_ok) ==
    /\ pc = "frames"
    /\ LET client == clients_[cur]
           pos == Find(client.read_buffer, <<"\n">>, 1)
           line == SubSeq(client.read_buffer, 1, pos - 1)
           complete_command == IF line # <<>> /\ line[Len(line)] = "\r"
                               THEN SubSeq(line, 1, Len(line) - 1) ELSE line
           rest == SubSeq(client.read_buffer, pos + 1, Len(client.read_buffer))
           parts == extract_command(complete_command)
           r == process_command(complete_command, data_, changes_since_save,
                                CanFork(fork_ok))
           dispatch == [fd |-> cur, parts |-> parts, reply |-> r.reply,
                        before |-> data_, changes_before |-> changes_since_save,
                        disconnect_before |-> client.should_disconnect]
       IN IF pos = 0 THEN
              /\ pc' = "read"
              /\ UNCHANGED <<server_vars, children, snaps, mutations_since_fork, frames, enq,
                             last_dispatch, last_mutation>>
          ELSE IF complete_command = <<>> THEN
              /\ clients_' = [clients_ EXCEPT ![cur].read_buffer = rest]
              /\ UNCHANGED <<pc, data_, changes_since_save, seconds_since_last_save,
                             children, snaps, mutations_since_fork, frames, enq, last_dispatch,
                             last_mutation>>
          ELSE IF parts.command = QUIT THEN
              /\ clients_' = [clients_ EXCEPT ![cur].read_buffer = rest,
                                              ![cur].write_buffer = @ \o ReplyOK,
                                              ![cur].should_disconnect = TRUE]
              /\ frames' = [frames EXCEPT ![cur] = Append(@, complete_command)]
              /\ enq' = [enq EXCEPT ![cur] = @ \o ReplyOK]
              /\ last_dispatch' = [dispatch EXCEPT !.reply = ReplyOK]
              /\ UNCHANGED <<pc, data_, changes_since_save, seconds_since_last_save,
                             children, snaps, mutations_since_fork, last_mutation>>
          ELSE
              /\ clients_' = [clients_ EXCEPT ![cur].read_buffer = rest,
                                              ![cur].write_buffer = @ \o r.reply]
              /\ data_' = r.data
              /\ changes_since_save' = r.changes
              /\ children' = IF r.forked THEN Forked(data_) ELSE children
              /\ snaps' = IF r.forked THEN snaps \cup {data_} ELSE snaps
              /\ mutations_since_fork' =
                    IF r.forked THEN 0
                    ELSE IF \/ parts.command = SET /\ r.reply = ReplyOK
                            \/ parts.command = DEL /\ r.reply = ReplyInteger(1)
                    THEN mutations_since_fork + 1
                    ELSE mutations_since_fork
              /\ frames' = [frames EXCEPT ![cur] = Append(@, complete_command)]
              /\ enq' = [enq EXCEPT ![cur] = @ \o r.reply]
              /\ last_dispatch' = dispatch
              /\ last_mutation' =
                    IF parts.command = SET /\ r.reply = ReplyOK
                    THEN [k \in DOMAIN last_mutation \cup {parts.key} |->
                            IF k = parts.key THEN parts.value ELSE last_mutation[k]]
                    ELSE IF parts.command = DEL /\ r.reply[1] = ":"
                    THEN [k \in DOMAIN last_mutation \ {parts.key} |->
                            last_mutation[k]]
                    ELSE last_mutation
              /\ UNCHANGED <<pc, seconds_since_last_save>>
    /\ UNCHANGED <<g_running, read_fds, cur, pending, clients_to_disconnect,
                   kernel_vars, script, tmp_file, dump_file, sock_out, rcvd,
                   expected, last_check, connects, starts, aof_file,
                   waits_after_clear,
                   thread_vars>>

\* The for loop over the readable clients has visited them all.
ReadDone ==
    /\ pc = "read"
    /\ read_fds \cap DOMAIN clients_ = {}
    /\ pc' = "send"
    /\ pending' = DOMAIN clients_
    /\ clients_to_disconnect' = {}
    /\ UNCHANGED <<server_vars, g_running, read_fds, cur, kernel_vars, script,
                   file_vars, history,
                   thread_vars>>

\* What send() returns for a write buffer: all of it is taken; with short also
\* half of it (a short write) or, written 0 here, a result <= 0 that takes nothing.
SendResults(write_buffer, short) ==
    IF short THEN {0, (Len(write_buffer) + 1) \div 2, Len(write_buffer)}
    ELSE {Len(write_buffer)}

\* A variant that differs from the source: the write buffer is not looked at.
QueueDisconnectUndrained(client_state) == client_state.should_disconnect

\* if (client_state.should_disconnect && client_state.write_buffer.empty())
QueueDisconnect(client_state) ==
    client_state.should_disconnect /\ client_state.write_buffer = <<>>

\* A variant that differs from the source: after a send that took some bytes
\* the whole write buffer is cleared.
SendStepClearing(client_fd, short) ==
    /\ pc = "send"
    /\ client_fd \in pending
    /\ pending' = pending \ {client_fd}
    /\ \E bytes_sent \in SendResults(clients_[client_fd].write_buffer, short) :
        LET left == IF bytes_sent > 0 THEN <<>>
                    ELSE clients_[client_fd].write_buffer
            client_state == [clients_[client_fd] EXCEPT !.write_buffer = left]
        IN /\ clients_' = [clients_ EXCEPT ![client_fd] = client_state]
           /\ sock_out' = [sock_out EXCEPT ![client_fd] =
                  @ \o SubSeq(clients_[client_fd].write_buffer, 1, bytes_sent)]
           /\ clients_to_disconnect' =
                  IF QueueDisconnect(client_state)
                  THEN clients_to_disconnect \cup {client_fd}
                  ELSE clients_to_disconnect
    /\ UNCHANGED <<data_, changes_since_save, seconds_since_last_save, g_running,
                   pc, read_fds, cur, kernel_vars, script, file_vars, rcvd, frames,
                   enq, expected, last_dispatch, last_mutation, snaps, mutations_since_fork, last_check,
                   connects, starts, aof_file,
                   waits_after_clear,
                   thread_vars>>

\* One turn of the loop "Send responses and handle disconnections".
SendStep(client_fd, short) ==
    /\ pc = "send"
    /\ client_fd \in pending
    /\ pending' = pending \ {client_fd}
    /\ \E bytes_sent \in SendResults(clients_[client_fd].write_buffer, short) :
        LET left == SubSeq(clients_[client_fd].write_buffer, bytes_sent + 1,
                           Len(clients_[client_fd].write_buffer))
            client_state == [clients_[client_fd] EXCEPT !.write_buffer = left]
        IN /\ clients_' = [clients_ EXCEPT ![client_fd] = client_state]
           /\ sock_out' = [sock_out EXCEPT ![client_fd] =
                  @ \o SubSeq(clients_[client_fd].write_buffer, 1, bytes_sent)]
           /\ clients_to_disconnect' =
                  IF QueueDisconnect(client_state)
                  THEN clients_to_disconnect \cup {client_fd}
                  ELSE clients_to_disconnect
    /\ UNCHANGED <<data_, changes_since_save, seconds_since_last_save, g_running,
                   pc, read_fds, cur, kernel_vars, script, file_vars, rcvd, frames,
                   enq, expected, last_dispatch, last_mutation, snaps, mutations_since_fork, last_check,
                   connects, starts, aof_file,
                   waits_after_clear,
                   thread_vars>>

\* The send loop has visited every client.
SendDone ==
    /\ pc = "send"
    /\ pending = {}
    /\ pc' = "cleanup"
    /\ UNCHANGED <<server_vars, g_running, read_fds, cur, pending,
                   clients_to_disconnect, kernel_vars, script, file_vars, history,
                   thread_vars>>

\* A variant that differs from the source: the queued descriptors are closed
\* and their entries stay in clients_.
CleanupWithoutErase ==
    /\ pc = "cleanup"
    /\ open_fds' = open_fds \ clients_to_disconnect
    /\ clients_' = clients_
    /\ pc' = "check"
    /\ UNCHANGED <<data_, changes_since_save, seconds_since_last_save, g_running,
                   read_fds, cur, pending, clients_to_disconnect, backlog, inbox,
                   peer_closed, script, file_vars, history,
                   thread_vars>>

\* "Clean up disconnected clients": close and erase each queued descriptor.
Cleanup ==
    /\ pc = "cleanup"
    /\ open_fds' = open_fds \ clients_to_disconnect
    /\ clients_' = [fd \in DOMAIN clients_ \ clients_to_disconnect |-> clients_[fd]]
    /\ pc' = "check"
    /\ UNCHANGED <<data_, changes_since_save, seconds_since_last_save, g_running,
                   read_fds, cur, pending, clients_to_disconnect, backlog, inbox,
                   peer_closed, script, file_vars, history,
                   thread_vars>>

\* A variant that differs from the source: the counters are reset only when the
\* fork succeeded.
SnapshotCheckResetOnFork(fork_ok) ==
    /\ pc = "check"
    /\ pc' = "top"
    /\ LET fire == should_save_snapshot(seconds_since_last_save, changes_since_save)
           forked == fire /\ CanFork(fork_ok)
       IN /\ last_check' = [seconds |-> seconds_since_last_save,
                            changes |-> changes_since_save,
                            fired |-> fire, forked |-> forked]
          /\ children' = IF forked THEN Forked(data_) ELSE children
          /\ snaps' = IF forked THEN snaps \cup {data_} ELSE snaps
          /\ mutations_since_fork' = IF forked THEN 0 ELSE mutations_since_fork
          /\ changes_since_save' = IF forked THEN 0 ELSE changes_since_save
          /\ seconds_since_last_save' = IF forked THEN 0 ELSE seconds_since_last_save
    /\ UNCHANGED <<data_, clients_, g_running, read_fds, cur, pending,
                   clients_to_disconnect, kernel_vars, script, tmp_file, dump_file,
                   conn_history, last_dispatch, last_mutation, connects, starts, aof_file,
                   waits_after_clear,
                   thread_vars>>

\* if (should_save_snapshot()) { background_save_internal(); reset }
SnapshotCheck(fork_ok) ==
    /\ pc = "check"
    /\ pc' = "top"
    /\ LET fire == should_save_snapshot(seconds_since_last_save, changes_since_save)
           forked == fire /\ CanFork(fork_ok)
       IN /\ last_check' = [seconds |-> seconds_since_last_save,
                            changes |-> changes_since_save,
                            fired |-> fire, forked |-> forked]
          /\ children' = IF forked THEN Forked(data_) ELSE children
          /\ snaps' = IF forked THEN snaps \cup {data_} ELSE snaps
          /\ mutations_since_fork' = IF forked THEN 0 ELSE mutations_since_fork
          /\ changes_since_save' = IF fire THEN 0 ELSE changes_since_save
          /\ seconds_since_last_save' = IF fire THEN 0 ELSE seconds_since_last_save
    /\ UNCHANGED <<data_, clients_, g_running, read_fds, cur, pending,
                   clients_to_disconnect, kernel_vars, script, tmp_file, dump_file,
                   conn_history, last_dispatch, last_mutation, connects, starts, aof_file,
                   waits_after_clear,
                   thread_vars>>

\* "Cleanup on shutdown": every registered socket and the listen socket are closed.
Shutdown ==
    /\ pc = "shutdown"
    /\ open_fds' = open_fds \ (DOMAIN clients_ \cup {server_fd_})
    /\ pc' = "done"
    /\ UNCHANGED <<server_vars, g_running, read_fds, cur, pending,
                   clients_to_disconnect, backlog, inbox, peer_closed, script,
                   file_vars, history,
                   thread_vars>>

(***************************************************************************)
(* Signals and the clock                                                   *)
(***************************************************************************)
\* A handler that runs while the thread is blocked in select makes select fail
\* with EINTR, and run() continues with the test of g_running.
AfterHandler == IF pc = "select_wait" THEN "top" ELSE pc

\* signal_handler for SIGINT or SIGTERM (main.cpp).
signal_handler ==
    /\ g_running
    /\ pc # "done"
    /\ g_running' = FALSE
    /\ pc' = AfterHandler
    /\ UNCHANGED <<server_vars, read_fds, cur, pending, clients_to_disconnect,
                   kernel_vars, script, file_vars, history,
                   thread_vars>>

\* handle_child_exit for SIGCHLD: waitpid reaps every finished child.
handle_child_exit ==
    /\ \E c \in Slots : children[c].pc = "zombie"
    /\ children' = [c \in Slots |->
                      IF children[c].pc = "zombie" THEN NoChild ELSE children[c]]
    /\ pc' = AfterHandler
    /\ UNCHANGED <<server_vars, g_running, read_fds, cur, pending,
                   clients_to_disconnect, kernel_vars, script, tmp_file, dump_file,
                   history,
                   thread_vars>>

\* The steady clock advances to one of the readings in grid.
Tick(grid) ==
    /\ \E t \in grid : /\ t > seconds_since_last_save
                       /\ seconds_since_last_save' = t
    /\ UNCHANGED <<data_, changes_since_save, clients_, g_running, loop_vars,
                   kernel_vars, script, file_vars, history,
                   thread_vars>>

(***************************************************************************)
(* A snapshot child: save_snapshot_to_file, then exit(0)                   *)
(*                                                                         *)
(* A child works on cdata, its copy of data_ as of the fork.  "where" says *)
(* under which name the file it has open is now found: "tmp", "dump", or   *)
(* "gone" once the file has no name left.                                  *)
(***************************************************************************)
child_vars_unchanged ==
    UNCHANGED <<server_vars, g_running, loop_vars, kernel_vars, script, history,
                   thread_vars>>

\* std::ofstream file(temp_file): creates data/dump.json.tmp, or truncates the
\* file that has this name now; with ok false the open fails and the child returns.
ChildOpen(c, ok) ==
    /\ children[c].pc = "open"
    /\ IF ok
       THEN /\ tmp_file' = [exists |-> TRUE, content |-> <<>>]
            /\ children' = [children EXCEPT ![c].pc = "write", ![c].where = "tmp"]
       ELSE /\ children' = [children EXCEPT ![c].pc = "exit"]
            /\ UNCHANGED tmp_file
    /\ UNCHANGED dump_file
    /\ child_vars_unchanged

\* The bytes of a file after text is written at its start.
Overwritten(content, text) == text \o SubSeq(content, Len(text) + 1, Len(content))

\* A variant that differs from the source: the writer serialises the store of
\* the parent as it is when the text is written, as a thread of the parent would.
ChildWriteShared(c) ==
    /\ children[c].pc = "write"
    /\ \E order \in Orders(DOMAIN data_) :
        LET text == SnapshotText(data_, order)
        IN /\ tmp_file' = IF children[c].where = "tmp"
                          THEN [tmp_file EXCEPT !.content = Overwritten(@, text)]
                          ELSE tmp_file
           /\ dump_file' = IF children[c].where = "dump"
                           THEN [dump_file EXCEPT !.content = Overwritten(@, text)]
                           ELSE dump_file
    /\ children' = [children EXCEPT ![c].pc = "rename"]
    /\ child_vars_unchanged

\* file.flush(); file.close(): the stream buffer, which holds the whole text of
\* a snapshot below its 8 KiB, goes to the open file in one write at offset 0.
ChildWrite(c) ==
    /\ children[c].pc = "write"
    /\ \E order \in Orders(DOMAIN children[c].cdata) :
        LET text == SnapshotText(children[c].cdata, order)
        IN /\ tmp_file' = IF children[c].where = "tmp"
                          THEN [tmp_file EXCEPT !.content = Overwritten(@, text)]
                          ELSE tmp_file
           /\ dump_file' = IF children[c].where = "dump"
                           THEN [dump_file EXCEPT !.content = Overwritten(@, text)]
                           ELSE dump_file
    /\ children' = [children EXCEPT ![c].pc = "rename"]
    /\ child_vars_unchanged

\* std::rename(temp_file, final_file): fails when no file is named
\* data/dump.json.tmp any more.
ChildRename(c) ==
    /\ children[c].pc = "rename"
    /\ IF tmp_file.exists
       THEN /\ dump_file' = tmp_file
            /\ tmp_file' = NoFile
            /\ children' = [k \in Slots |->
                  IF k = c THEN [children[c] EXCEPT !.pc = "exit", !.where =
                                    IF @ = "tmp" THEN "dump" ELSE "gone"]
                  ELSE IF children[k].where = "tmp"
                  THEN [children[k] EXCEPT !.where = "dump"]
                  ELSE IF children[k].where = "dump"
                  THEN [children[k] EXCEPT !.where = "gone"]
                  ELSE children[k]]
       ELSE /\ children' = [children EXCEPT ![c].pc = "remove"]
            /\ UNCHANGED <<tmp_file, dump_file>>
    /\ child_vars_unchanged

\* std::remove(temp_file) after a failed rename.
ChildRemove(c) ==
    /\ children[c].pc = "remove"
    /\ tmp_file' = NoFile
    /\ children' = [k \in Slots |->
          IF k = c THEN [children[c] EXCEPT !.pc = "exit", !.where =
                            IF @ = "tmp" THEN "gone" ELSE @]
          ELSE IF children[k].where = "tmp"
          THEN [children[k] EXCEPT !.where = "gone"]
          ELSE children[k]]
    /\ UNCHANGED dump_file
    /\ child_vars_unchanged

\* exit(0): the child is a zombie until the parent reaps it.
ChildExit(c) ==
    /\ children[c].pc = "exit"
    /\ children' = [children EXCEPT ![c] = [NoChild EXCEPT !.pc = "zombie"]]
    /\ UNCHANGED <<tmp_file, dump_file>>
    /\ child_vars_unchanged

Running(c) == children[c].pc \in {"open", "write", "rename", "remove", "exit"}

(***************************************************************************)
(* The process ends (killed, or run() returned) and the server is started  *)
(* again: the constructor loads data/dump.json.                            *)
(***************************************************************************)
Restart(max_starts) ==
    /\ starts < max_starts
    /\ \A c \in Slots : ~Running(c)
    /\ starts' = starts + 1
    /\ data_' = load_snapshot_from_file(dump_file, EmptyStore)
    /\ changes_since_save' = 0
    /\ seconds_since_last_save' = 0
    /\ clients_' = NoClients
    /\ g_running' = TRUE
    /\ pc' = "top"
    /\ read_fds' = {}
    /\ cur' = 0
    /\ pending' = {}
    /\ clients_to_disconnect' = {}
    /\ open_fds' = {server_fd_}
    /\ backlog' = <<>>
    /\ inbox' = EmptyPerFd
    /\ peer_closed' = [fd \in Fds |-> FALSE]
    /\ script' = EmptyPerFd
    /\ sock_out' = EmptyPerFd
    /\ rcvd' = EmptyPerFd
    /\ frames' = EmptyPerFd
    /\ enq' = EmptyPerFd
    /\ expected' = EmptyPerFd
    /\ last_dispatch' = NoDispatch
    /\ last_check' = NoCheck
    /\ connects' = 0
    /\ children' = [c \in Slots |-> NoChild]
    /\ last_mutation' = data_'
    /\ mutations_since_fork' = 0
    /\ waits_after_clear' = 0
    /\ UNCHANGED <<tmp_file, dump_file, snaps, aof_file, thread_vars>>

(***************************************************************************)
(* What the clients send                                                   *)
(***************************************************************************)
SP == <<" ">>
LF == <<"\n">>
SetAX == SET \o SP \o <<"a">> \o SP \o <<"x">> \o LF
SetAY == <<"s", "e", "t">> \o SP \o <<"a">> \o SP \o <<"y">> \o CRLF
GetA == GET \o SP \o <<"a">> \o LF
DelA == DEL \o SP \o <<"a">> \o LF
DelB == DEL \o SP \o <<"b">> \o LF
ExistsA == EXISTS \o SP \o <<"a">> \o CRLF
SetNoValue == SET \o SP \o <<"a">> \o LF
SetBZ == SET \o SP \o <<"b">> \o SP \o <<"z">> \o LF
GetB == GET \o SP \o <<"b">> \o LF
GetNoKey == <<"g", "e", "t">> \o LF
DelNoKey == DEL \o LF
ExistsNoKey == EXISTS \o SP \o CRLF
UnknownVerb == <<"f", "o", "o">> \o SP \o <<"a">> \o SP \o <<"x">> \o LF
Quit == QUIT \o LF
Bgsave == BGSAVE \o LF

MaxConnects == 2   \* connections made during one run

(***************************************************************************)
(* Spec: the event loop serving the commands of two clients                *)
(***************************************************************************)
CommandScripts ==
    {<<SetAX, GetA>>, <<SetAY, ExistsA>>, <<SetBZ, DelA>>, <<DelA, GetA>>,
     <<DelA, ExistsA>>, <<SetNoValue, SetAX>>, <<UnknownVerb, GetB>>,
     <<GetNoKey, SetBZ>>, <<DelNoKey, ExistsNoKey>>, <<Quit>>, <<Bgsave>>}

Next ==
    \/ ClientConnect(CommandScripts, MaxConnects)
    \/ \E fd \in Fds : ClientSend(fd)
    \/ \E fd \in Fds : ClientClose(fd)
    \/ LoopTop
    \/ SelectCall
    \/ SelectReturn
    \/ AcceptStep
    \/ \E fd \in Fds : RecvStep(fd, FALSE)
    \/ FrameStep(TRUE)
    \/ ReadDone
    \/ \E fd \in Fds : SendStep(fd, FALSE)
    \/ SendDone
    \/ Cleanup
    \/ SnapshotCheck(TRUE)

Spec == Init /\ [][Next]_vars

Last(seq) == seq[Len(seq)]
KeyA == <<"a">>
KeyB == <<"b">>

\* C1: whenever GET k or EXISTS k is answered and the last successful mutation of
\* k was SET k v, with no DEL k after it, the reply to GET is the bulk string
\* $<len(v)>\r\n<v>\r\n of exactly that v and the reply to EXISTS is :1\r\n; a
\* GET of a key with no such SET, a key never set among them, is answered $-1\r\n.
C1_GetReturnsLastSet ==
    LET d == last_dispatch
        k == d.parts.key
    IN d.fd # 0 /\ k # <<>> =>
        /\ d.parts.command = GET /\ k \in DOMAIN last_mutation =>
              d.reply = <<"$">> \o to_string(Len(last_mutation[k])) \o <<"\r", "\n">>
                        \o last_mutation[k] \o <<"\r", "\n">>
        /\ d.parts.command = EXISTS /\ k \in DOMAIN last_mutation =>
              d.reply = <<":", "1", "\r", "\n">>
        /\ d.parts.command = GET /\ k \notin DOMAIN last_mutation =>
              d.reply = <<"$", "-", "1", "\r", "\n">>

\* A GET of a is answered after a was set to x and then, by the other
\* connection, to y.
C1_Witness ==
    /\ last_dispatch.parts.command = GET
    /\ last_dispatch.parts.key = KeyA
    /\ last_dispatch.reply = <<"$", "1", "\r", "\n", "y", "\r", "\n">>
    /\ \E fd \in Fds : frames[fd] = <<SubSeq(SetAX, 1, Len(SetAX) - 1),
                                     SubSeq(GetA, 1, Len(GetA) - 1)>>

\* C2: DEL k is answered :1\r\n and removes k when k was present, and is
\* answered :0\r\n and changes nothing when k was absent; in the state it
\* leaves, EXISTS k is answered :0\r\n and GET k is answered $-1\r\n, and every
\* other key is present with its value exactly as before.
C2_DelRemovesOnlyItsKey ==
    LET d == last_dispatch
        k == d.parts.key
        probe(verb) == [command |-> verb, key |-> k, value |-> <<>>]
    IN d.fd # 0 /\ d.parts.command = DEL /\ k # <<>> =>
        /\ IF k \in DOMAIN d.before
           THEN d.reply = <<":", "1", "\r", "\n">> /\ k \notin DOMAIN data_
           ELSE d.reply = <<":", "0", "\r", "\n">> /\ data_ = d.before
        /\ DOMAIN data_ = DOMAIN d.before \ {k}
        /\ \A other \in DOMAIN data_ : data_[other] = d.before[other]
        /\ process_command_with_store(probe(EXISTS), data_).reply
              = <<":", "0", "\r", "\n">>
        /\ process_command_with_store(probe(GET), data_).reply
              = <<"$", "-", "1", "\r", "\n">>

\* DEL a is answered :1 in a store that also held b, and b is still there.
C2_Witness ==
    /\ last_dispatch.parts.command = DEL
    /\ last_dispatch.parts.key = KeyA
    /\ DOMAIN last_dispatch.before = {KeyA, KeyB}
    /\ last_dispatch.reply = <<":", "1", "\r", "\n">>
    /\ DOMAIN data_ = {KeyB}

\* The command has an unknown verb, or is SET without a non-empty key and value,
\* or GET, DEL or EXISTS without a non-empty key.
IsErrorCommand(parts) ==
    \/ parts.command \notin {SET, GET, DEL, EXISTS, QUIT, BGSAVE}
    \/ parts.command = SET /\ (parts.key = <<>> \/ parts.value = <<>>)
    \/ parts.command \in {GET, DEL, EXISTS} /\ parts.key = <<>>

ErrorReply(parts) ==
    IF parts.command = SET THEN ReplyWrongArgs(<<"s", "e", "t">>)
    ELSE IF parts.command = GET THEN ReplyWrongArgs(<<"g", "e", "t">>)
    ELSE IF parts.command = DEL THEN ReplyWrongArgs(<<"d", "e", "l">>)
    ELSE IF parts.command = EXISTS THEN ReplyWrongArgs(<<"e", "x", "i", "s", "t", "s">>)
    ELSE ReplyUnknown(parts.command)

\* C3: the step that dispatches an erroneous command appends the matching -ERR
\* reply to the connection's write_buffer and leaves data_, changes_since_save
\* and the connection's should_disconnect as they were; and should_disconnect is
\* set on a connection only if it sent QUIT or its peer closed, so a connection
\* that only made errors stays open.
C3_ErrorsLeaveStateAndConnection ==
    /\ [](\A fd \in DOMAIN clients_ :
            clients_[fd].should_disconnect =>
               \/ peer_closed[fd]
               \/ \E i \in 1..Len(frames[fd]) :
                     extract_command(frames[fd][i]).command = QUIT)
    /\ [][\A fd \in Fds :
            (/\ Len(frames'[fd]) = Len(frames[fd]) + 1
             /\ IsErrorCommand(extract_command(Last(frames'[fd]))))
            => /\ SubSeq(ErrorReply(extract_command(Last(frames'[fd]))), 1, 5)
                     = <<"-", "E", "R", "R", " ">>
               /\ clients_'[fd].write_buffer = clients_[fd].write_buffer
                     \o ErrorReply(extract_command(Last(frames'[fd])))
               /\ data_' = data_
               /\ changes_since_save' = changes_since_save
               /\ clients_'[fd].should_disconnect = clients_[fd].should_disconnect
               /\ clients_'[fd].fd = fd]_vars

\* After SET without a value was answered with an error, the next SET of the
\* same connection is served, and the connection is not marked for disconnect.
C3_Witness ==
    \E fd \in DOMAIN clients_ :
        /\ Len(frames[fd]) = 2
        /\ IsErrorCommand(extract_command(frames[fd][1]))
        /\ last_dispatch.fd = fd
        /\ last_dispatch.parts.command = SET
        /\ last_dispatch.reply = ReplyOK
        /\ enq[fd] = ReplyWrongArgs(<<"s", "e", "t">>) \o ReplyOK
        /\ ~clients_[fd].should_disconnect
        /\ KeyA \in DOMAIN data_

(***************************************************************************)
(* SpecDrain: short writes, QUIT, and the shutdown by signal               *)
(***************************************************************************)
DrainScripts ==
    {<<Quit>>, <<SetAX, Quit>>, <<GetA>>, <<SetAX \o GetA \o Quit>>, <<Quit \o GetA>>}

NextDrain ==
    \/ ClientConnect(DrainScripts, MaxConnects)
    \/ \E fd \in Fds : ClientSend(fd)
    \/ \E fd \in Fds : ClientClose(fd)
    \/ LoopTop
    \/ SelectCall
    \/ SelectReturn
    \/ AcceptStep
    \/ \E fd \in Fds : RecvStep(fd, FALSE)
    \/ FrameStep(TRUE)
    \/ ReadDone
    \/ \E fd \in Fds : SendStep(fd, TRUE)
    \/ SendDone
    \/ Cleanup
    \/ SnapshotCheck(TRUE)
    \/ signal_handler
    \/ Shutdown

SpecDrain == Init /\ [][NextDrain]_vars

\* C6: as long as run() is in its loop, a step that erases a connection from
\* clients_ starts in a state where the connection's should_disconnect is set
\* and its write_buffer is empty, the socket is closed by the same step, and
\* every byte ever put into the write_buffer, the +OK\r\n of a QUIT among them,
\* has been written to the socket.
C6_ClosedOnlyWhenDrained ==
    [][pc # "shutdown" /\ starts' = starts =>
        /\ \A fd \in DOMAIN clients_ \ DOMAIN clients_' :
              /\ clients_[fd].should_disconnect
              /\ clients_[fd].write_buffer = <<>>
              /\ sock_out[fd] = enq[fd]
              /\ fd \notin open_fds'
        /\ \A fd \in open_fds \ open_fds' : fd \notin DOMAIN clients_']_vars

\* A connection that sent SET, GET and QUIT in one segment has been closed by
\* the running loop with all three replies on the wire.
C6_Witness ==
    /\ pc = "check"
    /\ g_running
    /\ \E fd \in Fds \ DOMAIN clients_ :
          /\ fd \notin open_fds
          /\ Len(frames[fd]) = 3
          /\ frames[fd][3] = QUIT
          /\ sock_out[fd] = ReplyOK \o ReplyBulk(<<"x">>) \o ReplyOK

(***************************************************************************)
(* SpecFraming: pipelined streams that recv hands over in any pieces       *)
(***************************************************************************)
SetNul == SET \o SP \o <<"a">> \o SP \o <<"x", NUL, "y">> \o LF

FramingScripts ==
    {<<SetAX \o GetA>>, <<SetAY \o LF>>, <<GET, SP \o <<"a">> \o LF>>, <<SetNul>>}

NextFraming ==
    \/ ClientConnect(FramingScripts, MaxConnects)
    \/ \E fd \in Fds : ClientSend(fd)
    \/ \E fd \in Fds : ClientClose(fd)
    \/ LoopTop
    \/ SelectCall
    \/ SelectReturn
    \/ AcceptStep
    \/ \E fd \in Fds : RecvStep(fd, TRUE)
    \/ FrameStep(TRUE)
    \/ ReadDone
    \/ \E fd \in Fds : SendStep(fd, FALSE)
    \/ SendDone
    \/ Cleanup
    \/ SnapshotCheck(TRUE)

SpecFraming == Init /\ [][NextFraming]_vars

\* The frames of a byte stream: its lines, each without the \r that may end it,
\* the empty ones left out.
RECURSIVE StreamFrames(_)
StreamFrames(stream) ==
    LET nl == Find(stream, <<"\n">>, 1)
        line == SubSeq(stream, 1, nl - 1)
        frame == IF line # <<>> /\ line[Len(line)] = "\r"
                 THEN SubSeq(line, 1, Len(line) - 1) ELSE line
    IN IF nl = 0 THEN <<>>
       ELSE (IF frame = <<>> THEN <<>> ELSE <<frame>>)
            \o StreamFrames(SubSeq(stream, nl + 1, Len(stream)))

\* handle_client_data is not in its framing loop for fd.
Framed(fd) == pc = "frames" => cur # fd

\* C4: whenever handle_client_data has returned, the bytes put so far into a
\* connection's write_buffer are the replies, in request order, to the
\* terminated commands of the bytes received from it, each reply being the one
\* the command gets when executed against the store at its turn, and empty
\* frames adding nothing.
C4_RepliesInRequestOrder ==
    \A fd \in DOMAIN clients_ : Framed(fd) => enq[fd] = expected[fd]

\* C5: whenever handle_client_data has returned, the frames dispatched so far
\* for a connection are exactly the frames of the bytes received from it, each
\* once and in order, however recv cut the stream, and read_buffer holds the
\* bytes after the last line break.
C5_FramesDependOnStreamOnly ==
    \A fd \in DOMAIN clients_ :
        Framed(fd) => /\ frames[fd] = StreamFrames(rcvd[fd])
                      /\ clients_[fd].read_buffer = UnterminatedTail(rcvd[fd])

(***************************************************************************)
(* SpecPersist: BGSAVE, the automatic trigger, the snapshot children, and  *)
(* the restart that loads data/dump.json                                   *)
(***************************************************************************)
KeyData == <<"d", "a", "t", "a">>
SetDataX == SET \o SP \o KeyData \o SP \o <<"x">> \o LF

PersistScripts ==
    {<<SetAX \o SetBZ, Bgsave>>, <<SetDataX, Bgsave>>, <<Bgsave, Bgsave>>,
     <<SetAX \o DelA \o SetBZ>>, <<SetAX, Bgsave \o DelA \o SetBZ>>}

MaxStarts == 2        \* times the server process is started
PersistConnects == 1  \* connections made to one server process
SaveSeconds == 900    \* the first row of the trigger table

NextPersist ==
    \/ ClientConnect(PersistScripts, PersistConnects)
    \/ \E fd \in Fds : ClientSend(fd)
    \/ \E fd \in Fds : ClientClose(fd)
    \/ LoopTop
    \/ SelectCall
    \/ SelectReturn
    \/ AcceptStep
    \/ \E fd \in Fds : RecvStep(fd, FALSE)
    \/ \E fork_ok \in BOOLEAN : FrameStep(fork_ok)
    \/ ReadDone
    \/ \E fd \in Fds : SendStep(fd, FALSE)
    \/ SendDone
    \/ Cleanup
    \/ \E fork_ok \in BOOLEAN : SnapshotCheck(fork_ok)
    \/ handle_child_exit
    \/ Tick({SaveSeconds})
    \/ \E c \in Slots, ok \in BOOLEAN : ChildOpen(c, ok)
    \/ \E c \in Slots : ChildWrite(c)
    \/ \E c \in Slots : ChildRename(c)
    \/ \E c \in Slots : ChildRemove(c)
    \/ \E c \in Slots : ChildExit(c)
    \/ Restart(MaxStarts)

SpecPersist == Init /\ [][NextPersist]_vars

\* The file holds the complete text of a snapshot of the store d.
SnapshotOf(file, d) ==
    file.exists /\ \E order \in Orders(DOMAIN d) : file.content = SnapshotText(d, order)

\* C7: when a restarted server has loaded data/dump.json and has not served a
\* command yet, and the file is the snapshot that save_snapshot_to_file wrote of
\* a store d, then the store of the server is d: no key lost, added or changed.
C7_SnapshotRoundTrip ==
    starts > 1 /\ last_dispatch = NoDispatch =>
        \A d \in snaps : SnapshotOf(dump_file, d) => data_ = d

\* C8: in every state the file named data/dump.json is absent or holds the
\* complete text of a snapshot of one of the stores a child was forked from.
C8_CanonicalFileComplete ==
    dump_file.exists => \E d \in snaps : SnapshotOf(dump_file, d)

\* C9: in every state at most one snapshot child is running.
C9_AtMostOneChild == Cardinality({c \in Slots : Running(c)}) <= 1

(***************************************************************************)
(* SpecTrigger: the end-of-iteration check around the rows of its table    *)
(***************************************************************************)
\* Values of changes_since_save a server has reached when it has no connection,
\* and readings of the clock, both around the thresholds of the table.
ChangeGrid == {0, 1, 8, 9, 9998, 9999}
SecondsGrid == {59, 60, 299, 300, 899, 900, 901}

TriggerScripts == {<<SetAX \o SetAY>>, <<SetAX, DelA>>, <<SetAX>>, <<GetA>>}

InitTrigger ==
    /\ Idle(NoFile)
    /\ changes_since_save \in ChangeGrid
    /\ seconds_since_last_save = 0
    /\ children = [c \in Slots |-> NoChild]
    /\ tmp_file = NoFile
    /\ dump_file = NoFile
    /\ last_mutation = EmptyStore
    /\ snaps = {}
    /\ starts = 1
    /\ mutations_since_fork = 0
    /\ aof_file = NoFile
    /\ waits_after_clear = 0

NextTrigger ==
    \/ ClientConnect(TriggerScripts, PersistConnects)
    \/ \E fd \in Fds : ClientSend(fd)
    \/ \E fd \in Fds : ClientClose(fd)
    \/ LoopTop
    \/ SelectCall
    \/ SelectReturn
    \/ AcceptStep
    \/ \E fd \in Fds : RecvStep(fd, FALSE)
    \/ FrameStep(TRUE)
    \/ ReadDone
    \/ \E fd \in Fds : SendStep(fd, FALSE)
    \/ SendDone
    \/ Cleanup
    \/ \E fork_ok \in BOOLEAN : SnapshotCheck(fork_ok)
    \/ Tick(SecondsGrid)

SpecTrigger == InitTrigger /\ [][NextTrigger]_vars

C11_OneChangeIn900Seconds ==
    last_check.seconds >= 900 /\ last_check.changes >= 1 => last_check.fired

C13_ChangesCountSinceLastFork ==
    changes_since_save = mutations_since_fork

\* The file that child c has open, after the step.
OpenFileAfter(c) ==
    IF children[c].where = "tmp" THEN tmp_file'
    ELSE IF children[c].where = "dump" THEN dump_file'
    ELSE NoFile

\* C14: a snapshot child gets the parent's keyspace as of the fork, keeps it
\* unchanged as long as it runs whatever the parent does meanwhile, and writes
\* the serialisation of exactly that keyspace; no step of a child changes the
\* parent's keyspace.
C14_SnapshotIsolation ==
    [][starts' = starts => \A c \in Slots :
        /\ children[c].pc = "free" /\ children'[c].pc = "open" =>
              children'[c].cdata = data_ /\ data_' = data_
        /\ Running(c) /\ children'[c].pc # "zombie" =>
              children'[c].cdata = children[c].cdata
        /\ Running(c) /\ children'[c] # children[c] => data_' = data_
        /\ children[c].pc = "write" /\ children'[c].pc = "rename"
              /\ children[c].where \in {"tmp", "dump"} =>
              \E order \in Orders(DOMAIN children[c].cdata) :
                  LET text == SnapshotText(children[c].cdata, order)
                  IN /\ Len(OpenFileAfter(c).content) >= Len(text)
                     /\ SubSeq(OpenFileAfter(c).content, 1, Len(text)) = text]_vars

\* A child forked by BGSAVE when the store held a = x has written its file
\* after the parent deleted a and set b: the file is the snapshot of a = x.
C14_Witness ==
    \E c \in Slots :
        /\ children[c].pc = "rename"
        /\ children[c].where = "tmp"
        /\ children[c].cdata = (KeyA :> <<"x">>)
        /\ data_ = (KeyB :> <<"z">>)
        /\ SnapshotOf(tmp_file, children[c].cdata)

\* C15: once g_running is cleared, run() enters select at most one more time;
\* after select returns, by interruption or readiness, the test of the flag at
\* the top of the loop leads only to the shutdown code, which is reached in no
\* other way; the shutdown code closes every socket of the registry and the
\* listen socket, each of which was open until then, and nothing is closed
\* after it.
C15_ShutdownAfterOneWait ==
    [][/\ waits_after_clear' <= 1
       /\ ~g_running /\ pc = "top" /\ pc' # pc => pc' = "shutdown"
       /\ pc # "shutdown" /\ pc' = "shutdown" => ~g_running /\ pc = "top"
       /\ pc # "done" /\ pc' = "done" =>
             /\ pc = "shutdown"
             /\ DOMAIN clients_ \cup {server_fd_} \subseteq open_fds
             /\ open_fds' = open_fds \ (DOMAIN clients_ \cup {server_fd_})
       /\ pc = "done" => pc' = "done" /\ open_fds' = open_fds]_vars

\* run() has returned after one more wait in select with the flag cleared, and
\* the connection that was registered then and the listen socket are closed.
C15_Witness ==
    /\ pc = "done"
    /\ waits_after_clear = 1
    /\ clients_ # NoClients
    /\ open_fds \cap (DOMAIN clients_ \cup {server_fd_}) = {}

\* C16: a send that fails on a connection whose peer has closed, leaving the
\* bytes of write_buffer unsent, marks the connection for disconnect.
C16_SendErrorMarksDisconnect ==
    [][\A fd \in DOMAIN clients_ :
          /\ pc = "send"
          /\ fd \in pending /\ fd \notin pending'
          /\ peer_closed[fd]
          /\ clients_[fd].write_buffer # <<>>
          /\ clients_'[fd].write_buffer = clients_[fd].write_buffer
          => clients_'[fd].should_disconnect]_vars

\* A snapshot child is forked by the step.
ForkInStep == \E c \in Slots : children[c].pc = "free" /\ children'[c].pc = "open"

\* The bytes the step appends to what was enqueued for fd.
Enqueued(fd) == SubSeq(enq'[fd], Len(enq[fd]) + 1, Len(enq'[fd]))

\* C17: the step that dispatches a BGSAVE enqueues +Background saving started
\* exactly when it forks a snapshot child and -ERR Background save failed
\* exactly when it does not; either way it leaves the keyspace and the change
\* counter as they were, does not mark or drop the connection, and stays in the
\* loop over the frames of the read buffer.
C17_BgsaveReplyTellsFork ==
    [][pc = "frames" /\ frames' # frames /\ last_dispatch'.parts.command = BGSAVE =>
          /\ ForkInStep <=> Enqueued(cur) = ReplyStarted
          /\ ~ForkInStep <=> Enqueued(cur) = ReplySaveFailed
          /\ data_' = data_
          /\ changes_since_save' = changes_since_save
          /\ cur \in DOMAIN clients_'
          /\ clients_'[cur].should_disconnect = clients_[cur].should_disconnect
          /\ pc' = "frames"
          /\ g_running' = g_running]_vars

\* A connection was told that its first BGSAVE failed and that its second one
\* started, and the child of the second is running.
C17_Witness ==
    \E fd \in DOMAIN clients_ :
        /\ enq[fd] = ReplySaveFailed \o ReplyStarted
        /\ frames[fd] = <<BGSAVE, BGSAVE>>
        /\ \E c \in Slots : Running(c)

(***************************************************************************)
(* SpecRecovery: the files found at startup, mutations, and the kill and   *)
(* restart of the process at any point                                     *)
(***************************************************************************)
RecoveryScripts == {<<SetAX>>, <<SetAX \o SetBZ \o DelA>>, <<SetBZ, DelB>>}

\* data/dump.json as a server that held a = x left it.
DumpOnDisk == [exists |-> TRUE, content |-> SnapshotText(KeyA :> <<"x">>, <<KeyA>>)]

\* data/appendonly.aof holding the one line SET b z.
AofOnDisk == [exists |-> TRUE, content |-> SetBZ]

\* The server has been constructed with either file present or absent.
InitRecovery ==
    /\ dump_file \in {NoFile, DumpOnDisk}
    /\ aof_file \in {NoFile, AofOnDisk}
    /\ Constructed(dump_file)
    /\ children = [c \in Slots |-> NoChild]
    /\ tmp_file = NoFile
    /\ last_mutation = data_
    /\ snaps = {}
    /\ starts = 1
    /\ mutations_since_fork = 0
    /\ waits_after_clear = 0

NextRecovery ==
    \/ ClientConnect(RecoveryScripts, PersistConnects)
    \/ \E fd \in Fds : ClientSend(fd)
    \/ \E fd \in Fds : ClientClose(fd)
    \/ LoopTop
    \/ SelectCall
    \/ SelectReturn
    \/ AcceptStep
    \/ \E fd \in Fds : RecvStep(fd, FALSE)
    \/ FrameStep(TRUE)
    \/ ReadDone
    \/ \E fd \in Fds : SendStep(fd, FALSE)
    \/ SendDone
    \/ Cleanup
    \/ SnapshotCheck(TRUE)
    \/ Restart(MaxStarts)

SpecRecovery == InitRecovery /\ [][NextRecovery]_vars

\* The last command dispatched was a SET or DEL that changed the keyspace.
LastDispatchMutated ==
    \/ last_dispatch.parts.command = SET /\ last_dispatch.reply = ReplyOK
    \/ last_dispatch.parts.command = DEL /\ last_dispatch.reply = ReplyInteger(1)

\* C18: once the reply to a successful SET or DEL is enqueued, the line of the
\* command, ended by a line feed, is in the append-only file.
C18_ReplyAfterAofAppend ==
    LastDispatchMutated =>
        /\ aof_file.exists
        /\ Find(aof_file.content, Last(frames[last_dispatch.fd]) \o LF, 1) # 0

\* The keyspace that replaying the lines of an append-only file gives: SET and
\* DEL lines are applied in order, other lines skipped.
RECURSIVE AofReplay(_, _)
AofReplay(content, data) ==
    LET nl == Find(content, LF, 1)
        parts == extract_command(SubSeq(content, 1, nl - 1))
        applied == IF parts.command \in {SET, DEL}
                   THEN process_command_with_store(parts, data).data
                   ELSE data
    IN IF nl = 0 THEN data
       ELSE AofReplay(SubSeq(content, nl + 1, Len(content)), applied)

\* C19: a server that has not dispatched a command since its start holds the
\* keyspace of the append-only file if that file exists, else the keyspace of
\* the snapshot file if that exists, else no key.
C19_RecoveryOrder ==
    last_dispatch = NoDispatch =>
        data_ = IF aof_file.exists THEN AofReplay(aof_file.content, EmptyStore)
                ELSE IF dump_file.exists
                THEN load_snapshot_from_file(dump_file, EmptyStore)
                ELSE EmptyStore

\* C20: when the process is killed and started again with every reply to the
\* commands it executed written to the sockets and no snapshot taken, the
\* keyspace after the restart is the keyspace before the kill.
C20_KeyspaceSurvivesKill ==
    [][/\ starts' = starts + 1
       /\ snaps = {}
       /\ last_dispatch # NoDispatch
       /\ \A fd \in DOMAIN clients_ : sock_out[fd] = enq[fd]
       => data_' = data_]_vars

\* C22: the step that dispatches a command raises changes_since_save by exactly
\* 1 when the command is a SET answered +OK or a DEL answered :1, and leaves it
\* as it was for every other command.
C22_ChangesCountedPerMutation ==
    [][pc = "frames" /\ frames' # frames =>
          /\ last_dispatch'.changes_before = changes_since_save
          /\ changes_since_save' =
                IF LastDispatchMutated' THEN changes_since_save + 1
                ELSE changes_since_save]_vars

\* EXISTS was answered :1 after a change had been counted, and the counter is
\* as it was before the EXISTS.
C22_Witness ==
    /\ last_dispatch.parts.command = EXISTS
    /\ last_dispatch.reply = ReplyInteger(1)
    /\ last_dispatch.changes_before >= 1
    /\ changes_since_save = last_dispatch.changes_before

\* seq begins with pre.
IsPrefix(pre, seq) == Len(pre) <= Len(seq) /\ SubSeq(seq, 1, Len(pre)) = pre

\* C23: after every step the bytes written to a socket are a prefix of the
\* replies enqueued for it, and for a registered connection the bytes written
\* followed by write_buffer are exactly the replies enqueued; a send that takes
\* n bytes writes the first n bytes of write_buffer and erases exactly these,
\* and a send that takes nothing leaves write_buffer as it was.
C23_WrittenIsPrefixOfEnqueued ==
    [][/\ \A fd \in Fds : IsPrefix(sock_out'[fd], enq'[fd])
       /\ \A fd \in DOMAIN clients_' :
             sock_out'[fd] \o clients_'[fd].write_buffer = enq'[fd]
       /\ \A fd \in DOMAIN clients_ :
             pc = "send" /\ fd \in pending /\ fd \notin pending' =>
                LET n == Len(sock_out'[fd]) - Len(sock_out[fd])
                    wb == clients_[fd].write_buffer
                IN /\ n \in 0..Len(wb)
                   /\ sock_out'[fd] = sock_out[fd] \o SubSeq(wb, 1, n)
                   /\ clients_'[fd].write_buffer = SubSeq(wb, n + 1, Len(wb))]_vars

\* A connection that has been answered three commands has got a part of the
\* replies, the rest still being in write_buffer after a short write.
C23_Witness ==
    \E fd \in DOMAIN clients_ :
        /\ Len(frames[fd]) = 3
        /\ Len(sock_out[fd]) > Len(ReplyOK)
        /\ Len(sock_out[fd]) < Len(enq[fd])
        /\ clients_[fd].write_buffer # <<>>

(***************************************************************************)
(* SpecCodec: one command line in many spellings, sent to the event loop   *)
(***************************************************************************)
PING == <<"P", "I", "N", "G">>
Verbs == {SET, GET, DEL, EXISTS, QUIT, PING}
Casings == {"upper", "lower", "capital", "alternate"}

ToLower(c) ==
    IF \E i \in 1..26 : UpperCase[i] = c
    THEN LowerCase[CHOOSE i \in 1..26 : UpperCase[i] = c]
    ELSE c

\* An upper-case verb spelled in one of the casings.
Cased(verb, casing) ==
    [i \in 1..Len(verb) |->
        IF casing = "upper" THEN verb[i]
        ELSE IF casing = "lower" THEN ToLower(verb[i])
        ELSE IF casing = "capital" THEN (IF i = 1 THEN verb[i] ELSE ToLower(verb[i]))
        ELSE (IF i % 2 = 1 THEN ToLower(verb[i]) ELSE verb[i])]

\* The spellings: a verb in a casing, after optional leading whitespace, with no
\* key, a key, or a key and a value, the value followed or not by more tokens;
\* sep stands between the tokens.
CodecInputs ==
    {[verb |-> v, casing |-> c, lead |-> l, sep |-> sp, key |-> k, value |-> val,
      extra |-> e] :
        v \in Verbs, c \in Casings, l \in {<<>>, <<" ">>},
        sp \in {<<" ">>, <<"\t">>, <<" ", " ">>},
        k \in {<<>>, KeyA, KeyB}, val \in {<<>>, <<"y">>},
        e \in {<<>>, <<"j">>, <<"j", " ", "k">>}}

\* An input is well formed when a value has a key and extra tokens have a value.
CodecInput(p) ==
    /\ p.key = <<>> => p.value = <<>>
    /\ p.value = <<>> => p.extra = <<>>

\* The line as the client types it.
VariantLine(p) ==
    p.lead \o Cased(p.verb, p.casing)
    \o (IF p.key = <<>> THEN <<>> ELSE p.sep \o p.key)
    \o (IF p.value = <<>> THEN <<>> ELSE p.sep \o p.value)
    \o (IF p.extra = <<>> THEN <<>> ELSE p.sep \o p.extra)

\* The same command in upper case with at most three tokens, one space apart.
CanonLine(p) ==
    p.verb
    \o (IF p.key = <<>> THEN <<>> ELSE SP \o p.key)
    \o (IF p.value = <<>> THEN <<>> ELSE SP \o p.value)

CodecScripts ==
    UNION {{<<VariantLine(p) \o LF>>, <<SetAX \o VariantLine(p) \o LF>>} :
              p \in {q \in CodecInputs : CodecInput(q)}}

NextCodec ==
    \/ ClientConnect(CodecScripts, PersistConnects)
    \/ \E fd \in Fds : ClientSend(fd)
    \/ \E fd \in Fds : ClientClose(fd)
    \/ LoopTop
    \/ SelectCall
    \/ SelectReturn
    \/ AcceptStep
    \/ \E fd \in Fds : RecvStep(fd, FALSE)
    \/ FrameStep(TRUE)
    \/ ReadDone
    \/ \E fd \in Fds : SendStep(fd, FALSE)
    \/ SendDone
    \/ Cleanup
    \/ SnapshotCheck(TRUE)

SpecCodec == Init /\ [][NextCodec]_vars

\* C24: whenever a line is dispatched that spells a command in lower or mixed
\* case, with any whitespace between the tokens and any tokens after the third,
\* it is parsed into the upper-case verb, the key and the value, exactly as the
\* upper-case line of at most three tokens is, and the reply enqueued and the
\* keyspace left are those of that line; an unknown verb is named in upper case
\* in the error reply.
C24_SpellingsParseAlike ==
    [][pc = "frames" /\ frames' # frames =>
        \A p \in CodecInputs :
            CodecInput(p) /\ Last(frames'[cur]) = VariantLine(p) =>
                LET parts == [command |-> p.verb, key |-> p.key, value |-> p.value]
                    canon == process_command_with_store(
                                 extract_command(CanonLine(p)), data_)
                IN /\ extract_command(VariantLine(p)) = parts
                   /\ extract_command(CanonLine(p)) = parts
                   /\ last_dispatch'.parts = parts
                   /\ Enqueued(cur) = canon.reply
                   /\ data_' = canon.data
                   /\ p.verb = PING => Enqueued(cur) = ReplyUnknown(PING)]_vars

\* "sEt\ta\ty\tj k" has been dispatched after SET a x: a holds y.
C24_Witness ==
    \E fd \in DOMAIN clients_ :
        /\ Len(frames[fd]) = 2
        /\ frames[fd][2] = <<"s", "E", "t", "\t", "a", "\t", "y", "\t", "j", " ", "k">>
        /\ last_dispatch.parts = [command |-> SET, key |-> KeyA, value |-> <<"y">>]
        /\ last_dispatch.before = (KeyA :> <<"x">>)
        /\ data_ = (KeyA :> <<"y">>)
        /\ enq[fd] = ReplyOK \o ReplyOK

\* What accept_new_connections puts into the registry for the descriptor fd.
FreshClient(fd) ==
    [fd |-> fd, read_buffer |-> <<>>, write_buffer |-> <<>>, should_disconnect |-> FALSE]

\* C26: as long as run() has not returned, after every step the keys of
\* clients_ are exactly the accepted sockets that are open and every entry's fd
\* is its key; an entry that appears is that of a socket that was not open
\* before and has empty buffers and should_disconnect false; a socket that is
\* closed was open and registered, and its entry is erased by the same step.
C26_RegistryIsOpenSockets ==
    [][pc' # "done" /\ starts' = starts =>
        /\ DOMAIN clients_' = open_fds' \ {server_fd_}
        /\ \A fd \in DOMAIN clients_' : clients_'[fd].fd = fd
        /\ \A fd \in DOMAIN clients_' \ DOMAIN clients_ :
              fd \notin open_fds /\ clients_'[fd] = FreshClient(fd)
        /\ \A fd \in open_fds \ open_fds' :
              fd \in DOMAIN clients_ /\ fd \notin DOMAIN clients_']_vars

\* The second connection has been accepted on descriptor 1, on which an earlier
\* connection sent QUIT and was closed: its entry is fresh.
C26_Witness ==
    /\ connects = 2
    /\ backlog = <<>>
    /\ DOMAIN clients_ = {1}
    /\ open_fds = {server_fd_, 1}
    /\ clients_[1] = FreshClient(1)
    /\ rcvd[1] = <<>>
    /\ last_dispatch.fd = 1
    /\ last_dispatch.parts.command = QUIT

\* C27: no frame of a connection is dispatched, and nothing is enqueued for it,
\* once one of its earlier frames was a QUIT.
C27_NothingDispatchedAfterQuit ==
    [][\A fd \in Fds :
          (\E i \in 1..Len(frames[fd]) : extract_command(frames[fd][i]).command = QUIT)
          /\ fd \in DOMAIN clients_ /\ fd \in DOMAIN clients_'
          => frames'[fd] = frames[fd] /\ enq'[fd] = enq[fd]]_vars

\* C28: when run() is blocked in select with no monitored socket readable, so
\* that it stays blocked for as long as the clients send nothing more, no
\* connection has bytes left in write_buffer.
C28_NothingUnsentWhileBlocked ==
    /\ pc = "select_wait"
    /\ \A fd \in {server_fd_} \cup DOMAIN clients_ : ~Readable(fd)
    => \A fd \in DOMAIN clients_ : clients_[fd].write_buffer = <<>>

\* C30: when run() is blocked in select with no monitored socket readable, so
\* that it stays blocked for as long as no client sends anything, no row of the
\* trigger table holds for the changes counted and the time elapsed.
C30_NoTriggerDueWhileBlocked ==
    /\ pc = "select_wait"
    /\ \A fd \in {server_fd_} \cup DOMAIN clients_ : ~Readable(fd)
    => ~should_save_snapshot(seconds_since_last_save, changes_since_save)

(***************************************************************************)
(* RedisServer: one detached thread per connection, the database behind    *)
(* db_mutex_ (ThreadedRedisServer::handle_client and process_command are   *)
(* the same code)                                                          *)
(***************************************************************************)
\* A variant that differs from the source: the bool that Database::del returns
\* is written into the reply as a word.
RedisServer_process_command_bool_as_text(parts, db) ==
    IF parts.command = SET THEN
        IF parts.key = <<>> \/ parts.value = <<>>
        THEN [reply |-> ReplyWrongArgs(<<"s", "e", "t">>), db |-> db]
        ELSE [reply |-> ReplyOK, db |-> StoreSet(db, parts.key, parts.value)]
    ELSE IF parts.command = GET THEN
        IF parts.key = <<>>
        THEN [reply |-> ReplyWrongArgs(<<"g", "e", "t">>), db |-> db]
        ELSE IF parts.key \in DOMAIN db
        THEN [reply |-> ReplyBulk(db[parts.key]), db |-> db]
        ELSE [reply |-> ReplyNull, db |-> db]
    ELSE IF parts.command = DEL THEN
        IF parts.key = <<>>
        THEN [reply |-> ReplyWrongArgs(<<"d", "e", "l">>), db |-> db]
        ELSE [reply |-> <<":">>
                         \o (IF parts.key \in DOMAIN db
                             THEN <<"t", "r", "u", "e">>
                             ELSE <<"f", "a", "l", "s", "e">>)
                         \o CRLF,
              db |-> StoreErase(db, parts.key)]
    ELSE IF parts.command = EXISTS THEN
        IF parts.key = <<>>
        THEN [reply |-> ReplyWrongArgs(<<"e", "x", "i", "s", "t", "s">>), db |-> db]
        ELSE [reply |-> ReplyInteger(IF parts.key \in DOMAIN db THEN 1 ELSE 0),
              db |-> db]
    ELSE IF parts.command = QUIT THEN [reply |-> ReplyOK, db |-> db]
    ELSE [reply |-> ReplyUnknown(parts.command), db |-> db]

\* RedisServer::process_command below the lock: the reply and the database left.
RedisServer_process_command(parts, db) ==
    IF parts.command = SET THEN
        IF parts.key = <<>> \/ parts.value = <<>>
        THEN [reply |-> ReplyWrongArgs(<<"s", "e", "t">>), db |-> db]
        ELSE [reply |-> ReplyOK, db |-> StoreSet(db, parts.key, parts.value)]
    ELSE IF parts.command = GET THEN
        IF parts.key = <<>>
        THEN [reply |-> ReplyWrongArgs(<<"g", "e", "t">>), db |-> db]
        ELSE IF parts.key \in DOMAIN db
        THEN [reply |-> ReplyBulk(db[parts.key]), db |-> db]
        ELSE [reply |-> ReplyNull, db |-> db]
    ELSE IF parts.command = DEL THEN
        IF parts.key = <<>>
        THEN [reply |-> ReplyWrongArgs(<<"d", "e", "l">>), db |-> db]
        ELSE [reply |-> ReplyInteger(IF parts.key \in DOMAIN db THEN 1 ELSE 0),
              db |-> StoreErase(db, parts.key)]
    ELSE IF parts.command = EXISTS THEN
        IF parts.key = <<>>
        THEN [reply |-> ReplyWrongArgs(<<"e", "x", "i", "s", "t", "s">>), db |-> db]
        ELSE [reply |-> ReplyInteger(IF parts.key \in DOMAIN db THEN 1 ELSE 0),
              db |-> db]
    ELSE IF parts.command = QUIT THEN [reply |-> ReplyOK, db |-> db]
    ELSE [reply |-> ReplyUnknown(parts.command), db |-> db]

event_loop_unchanged ==
    UNCHANGED <<server_vars, g_running, loop_vars, file_vars, expected, last_dispatch,
                last_mutation, snaps, last_check, connects, starts,
                mutations_since_fork, aof_file, waits_after_clear>>

\* run(): accept() returns a connection and a detached thread is started for it.
ThreadAccept ==
    /\ backlog # <<>>
    /\ Fds \ open_fds # {}
    /\ LET client_fd == Min(Fds \ open_fds)
       IN /\ threads' = [threads EXCEPT ![client_fd] =
                            [NoThread EXCEPT !.pc = "recv",
                                             !.conn = connects - Len(backlog) + 1]]
          /\ open_fds' = open_fds \cup {client_fd}
          /\ backlog' = Tail(backlog)
          /\ script' = [script EXCEPT ![client_fd] = Head(backlog)]
          /\ inbox' = [inbox EXCEPT ![client_fd] = <<>>]
          /\ peer_closed' = [peer_closed EXCEPT ![client_fd] = FALSE]
          /\ sock_out' = [sock_out EXCEPT ![client_fd] = <<>>]
          /\ rcvd' = [rcvd EXCEPT ![client_fd] = <<>>]
          /\ frames' = [frames EXCEPT ![client_fd] = <<>>]
          /\ enq' = [enq EXCEPT ![client_fd] = <<>>]
    /\ UNCHANGED <<db_, db_mutex_, executed>>
    /\ event_loop_unchanged

\* handle_client from the blocking recv to the end of the if that looks for one
\* line break: at end of stream the socket is closed and the thread ends; else
\* the bytes are appended to command_buffer, and if it holds a line break the
\* first line is taken out; a QUIT goes to its send, any other non-empty line to
\* process_command, and without a line the thread is back in recv.
ThreadRecv(client_fd, split) ==
    /\ threads[client_fd].pc = "recv"
    /\ inbox[client_fd] # <<>> \/ peer_closed[client_fd]
    /\ IF inbox[client_fd] = <<>>
       THEN /\ open_fds' = open_fds \ {client_fd}
            /\ threads' = [threads EXCEPT ![client_fd] = NoThread]
            /\ UNCHANGED <<inbox, rcvd, frames>>
       ELSE \E bytes_read \in RecvSizes(client_fd, split) :
            LET buffer == SubSeq(inbox[client_fd], 1, bytes_read)
                command_buffer == threads[client_fd].command_buffer \o buffer
                pos == Find(command_buffer, <<"\n">>, 1)
                line == SubSeq(command_buffer, 1, pos - 1)
                complete_command == IF line # <<>> /\ line[Len(line)] = "\r"
                                    THEN SubSeq(line, 1, Len(line) - 1) ELSE line
                rest == SubSeq(command_buffer, pos + 1, Len(command_buffer))
                parts == extract_command(complete_command)
            IN /\ inbox' = [inbox EXCEPT ![client_fd] =
                               SubSeq(@, bytes_read + 1, Len(@))]
               /\ rcvd' = [rcvd EXCEPT ![client_fd] = @ \o buffer]
               /\ UNCHANGED open_fds
               /\ IF pos = 0 THEN
                      /\ threads' = [threads EXCEPT
                                        ![client_fd].command_buffer = command_buffer]
                      /\ UNCHANGED frames
                  ELSE IF complete_command = <<>> THEN
                      /\ threads' = [threads EXCEPT ![client_fd].command_buffer = rest]
                      /\ UNCHANGED frames
                  ELSE
                      /\ threads' = [threads EXCEPT
                            ![client_fd].command_buffer = rest,
                            ![client_fd].complete_command = complete_command,
                            ![client_fd].response =
                                IF parts.command = QUIT THEN ReplyOK ELSE <<>>,
                            ![client_fd].pc =
                                IF parts.command = QUIT THEN "send" ELSE "lock"]
                      /\ frames' = [frames EXCEPT ![client_fd] =
                                       Append(@, complete_command)]
    /\ UNCHANGED <<backlog, peer_closed, script, sock_out, enq, db_, db_mutex_,
                   executed>>
    /\ event_loop_unchanged

\* A variant that differs from the source: the thread goes on without waiting
\* for the mutex to be free.
ThreadLockWithoutWaiting(client_fd) ==
    /\ threads[client_fd].pc = "lock"
    /\ db_mutex_' = client_fd
    /\ threads' = [threads EXCEPT ![client_fd].pc = "exec"]
    /\ UNCHANGED <<kernel_vars, script, conn_history, db_, executed>>
    /\ event_loop_unchanged

\* std::lock_guard<std::mutex> lock(db_mutex_): blocks until the mutex is free.
ThreadLock(client_fd) ==
    /\ threads[client_fd].pc = "lock"
    /\ db_mutex_ = 0
    /\ db_mutex_' = client_fd
    /\ threads' = [threads EXCEPT ![client_fd].pc = "exec"]
    /\ UNCHANGED <<kernel_vars, script, conn_history, db_, executed>>
    /\ event_loop_unchanged

\* The call into Database starts: it looks the table up.
ThreadExec(client_fd) ==
    /\ threads[client_fd].pc = "exec"
    /\ threads' = [threads EXCEPT ![client_fd].seen = db_,
                                  ![client_fd].pc = "return"]
    /\ UNCHANGED <<kernel_vars, script, conn_history, db_, db_mutex_, executed>>
    /\ event_loop_unchanged

\* The call into Database ends, having changed the table it found as the
\* command asks; process_command returns the reply and the lock_guard unlocks.
ThreadReturn(client_fd) ==
    /\ threads[client_fd].pc = "return"
    /\ LET parts == extract_command(threads[client_fd].complete_command)
           r == RedisServer_process_command(parts, threads[client_fd].seen)
       IN /\ db_' = r.db
          /\ threads' = [threads EXCEPT ![client_fd].response = r.reply,
                                        ![client_fd].seen = EmptyStore,
                                        ![client_fd].pc = "send"]
          /\ executed' = Append(executed,
                [conn |-> threads[client_fd].conn,
                 command |-> threads[client_fd].complete_command,
                 reply |-> r.reply])
    /\ db_mutex_' = IF db_mutex_ = client_fd THEN 0 ELSE db_mutex_
    /\ UNCHANGED <<kernel_vars, script, conn_history>>
    /\ event_loop_unchanged

\* send_command: the blocking send writes the whole response, or fails when the
\* peer has closed; after the +OK of a QUIT the socket is closed and the thread
\* ends, else it is back in recv.
ThreadSend(client_fd) ==
    /\ threads[client_fd].pc = "send"
    /\ \E sent \in IF peer_closed[client_fd] THEN BOOLEAN ELSE {TRUE} :
          sock_out' = [sock_out EXCEPT ![client_fd] =
                          IF sent THEN @ \o threads[client_fd].response ELSE @]
    /\ enq' = [enq EXCEPT ![client_fd] = @ \o threads[client_fd].response]
    /\ IF extract_command(threads[client_fd].complete_command).command = QUIT
       THEN /\ open_fds' = open_fds \ {client_fd}
            /\ threads' = [threads EXCEPT ![client_fd] = NoThread]
       ELSE /\ threads' = [threads EXCEPT ![client_fd].pc = "recv",
                                          ![client_fd].response = <<>>,
                                          ![client_fd].complete_command = <<>>]
            /\ UNCHANGED open_fds
    /\ UNCHANGED <<backlog, inbox, peer_closed, script, rcvd, frames, db_, db_mutex_,
                   executed>>
    /\ event_loop_unchanged

(***************************************************************************)
(* SpecThreaded: clients of the thread-per-connection server               *)
(***************************************************************************)
\* "SET a x" as the helper of the unit test sends a command: no line break.
SetAXUnterminated == SET \o SP \o <<"a">> \o SP \o <<"x">>

ThreadScripts ==
    {<<SetAX, GetA>>, <<SetAY, DelA>>, <<SetBZ, ExistsA, Quit>>, <<SetAX \o GetA>>,
     <<SetAXUnterminated>>}

NextThreaded ==
    \/ ClientConnect(ThreadScripts, MaxConnects)
    \/ \E fd \in Fds : ClientSend(fd)
    \/ \E fd \in Fds : ClientClose(fd)
    \/ ThreadAccept
    \/ \E fd \in Fds : ThreadRecv(fd, FALSE)
    \/ \E fd \in Fds : ThreadLock(fd)
    \/ \E fd \in Fds : ThreadExec(fd)
    \/ \E fd \in Fds : ThreadReturn(fd)
    \/ \E fd \in Fds : ThreadSend(fd)

SpecThreaded == Init /\ [][NextThreaded]_vars

\* The thread of fd waits in recv and the client has nothing more to send and
\* keeps its end open: neither side goes on until the other one acts.
BothWait(fd) ==
    /\ threads[fd].pc = "recv"
    /\ inbox[fd] = <<>>
    /\ script[fd] = <<>>
    /\ ~peer_closed[fd]

\* C21: when a client has sent a command without a line break, all of it has
\* been received, and the client and its thread both wait, a reply has been
\* written to the connection.
C21_UnterminatedCommandAnswered ==
    \A fd \in Fds :
        BothWait(fd) /\ rcvd[fd] # <<>> /\ Find(rcvd[fd], LF, 1) = 0
        => sock_out[fd] # <<>>

\* C29: when the client and its thread both wait, no complete line is left
\* unanswered in command_buffer.
C29_NoFrameLeftWaiting ==
    \A fd \in Fds : BothWait(fd) => Find(threads[fd].command_buffer, LF, 1) = 0

\* The replies and the database that executing the command lines one after the
\* other, each to its end, gives when started from db.
RECURSIVE SequentialRun(_, _)
SequentialRun(commands, db) ==
    IF commands = <<>> THEN [replies |-> <<>>, db |-> db]
    ELSE LET r == RedisServer_process_command(extract_command(Head(commands)), db)
             rest == SequentialRun(Tail(commands), r.db)
         IN [replies |-> <<r.reply>> \o rest.replies, db |-> rest.db]

IsQuit(line) == extract_command(line).command = QUIT

\* C25: a thread is inside a database call only while it holds db_mutex_; the
\* replies of the commands executed so far and the database are those of the
\* same commands run one after the other in the order recorded; and in that
\* order the commands of each connection stand as the connection sent them.
C25_CommandsAreSerialized ==
    /\ \A fd \in Fds : threads[fd].pc \in {"exec", "return"} => db_mutex_ = fd
    /\ LET run == SequentialRun([i \in 1..Len(executed) |-> executed[i].command],
                                EmptyStore)
       IN /\ run.db = db_
          /\ run.replies = [i \in 1..Len(executed) |-> executed[i].reply]
    /\ \A fd \in Fds :
          threads[fd].pc # "none" =>
             LET mine == SelectSeq(executed, LAMBDA e : e.conn = threads[fd].conn)
                 sent == SelectSeq(frames[fd], LAMBDA line : ~IsQuit(line))
             IN IsPrefix([i \in 1..Len(mine) |-> mine[i].command], sent)

\* Commands of two connections have been executed alternately, and now one
\* thread waits for the mutex that the other holds inside a database call.
C25_Witness ==
    /\ Len(executed) >= 2
    /\ executed[1].conn # executed[2].conn
    /\ \E waiting, holder \in Fds :
          /\ threads[waiting].pc = "lock"
          /\ threads[holder].pc = "return"
          /\ db_mutex_ = holder
          /\ threads[holder].seen # EmptyStore

\* A step that run() takes by itself, whatever its clients and signals do.
RunStep ==
    \/ LoopTop
    \/ SelectCall
    \/ SelectReturn
    \/ AcceptStep
    \/ \E fd \in Fds : RecvStep(fd, FALSE)
    \/ FrameStep(TRUE)
    \/ ReadDone
    \/ \E fd \in Fds : SendStep(fd, TRUE)
    \/ SendDone
    \/ Cleanup
    \/ SnapshotCheck(TRUE)
    \/ Shutdown

\* C31: once the handler has cleared g_running, run() goes on to its end by
\* itself: in every state with the flag cleared in which run() has not
\* returned, run() has a step to take that needs no socket activity and no
\* further signal.
C31_RunReturnsAfterSignal ==
    ~g_running /\ pc # "done" => ENABLED RunStep

(***************************************************************************)
(* SpecEquiv: the same command lines given to process_command_with_store   *)
(* over data_ and to RedisServer::process_command over db_                 *)
(***************************************************************************)
\* Command lines: every verb in upper and lower case, with no argument, a key,
\* or a key and a value.
EquivLines ==
    {Cased(v, c) \o args :
        v \in {SET, GET, DEL, EXISTS, PING, QUIT, BGSAVE},
        c \in {"upper", "lower"},
        args \in {<<>>, SP \o KeyA, SP \o KeyB, SP \o KeyA \o SP \o <<"x">>,
                  SP \o KeyA \o SP \o <<"y">>, SP \o KeyB \o SP \o <<"z">>}}

\* One command line is parsed and processed by both processors, each on its own
\* keyspace; last_dispatch keeps what the first did, executed what the second did.
ProcessInBoth(line) ==
    LET parts == extract_command(line)
        a == process_command_with_store(parts, data_)
        b == RedisServer_process_command(parts, db_)
    IN /\ data_' = a.data
       /\ db_' = b.db
       /\ last_dispatch' = [NoDispatch EXCEPT !.parts = parts, !.reply = a.reply,
                                              !.before = data_]
       /\ executed' = <<[conn |-> 0, command |-> line, reply |-> b.reply]>>
       /\ UNCHANGED <<changes_since_save, seconds_since_last_save, clients_,
                      g_running, loop_vars, kernel_vars, script, file_vars,
                      conn_history, last_mutation, snaps, last_check, connects,
                      starts, mutations_since_fork, aof_file, waits_after_clear,
                      threads,
                      db_mutex_>>

NextEquiv == \E line \in EquivLines : ProcessInBoth(line)

SpecEquiv == Init /\ [][NextEquiv]_vars

\* C32: after any sequence of command lines given to both processors from the
\* same keyspace, the two keyspaces are equal, and the replies to a line whose
\* verb is SET, GET, DEL, EXISTS or one that neither processor knows are the
\* same bytes, whether its arguments are complete or not.
C32_ProcessorsAgree ==
    /\ data_ = db_
    /\ executed # <<>> /\ last_dispatch.parts.command \notin {QUIT, BGSAVE}
       => Last(executed).reply = last_dispatch.reply

\* After earlier commands left b = z and a in both keyspaces, DEL a was given to
\* both: each removed a and answered :1.
C32_Witness ==
    /\ executed # <<>>
    /\ last_dispatch.parts = extract_command(DelA)
    /\ KeyA \in DOMAIN last_dispatch.before
    /\ data_ = (KeyB :> <<"z">>)
    /\ db_ = (KeyB :> <<"z">>)
    /\ last_dispatch.reply = ReplyInteger(1)
    /\ Last(executed).reply = ReplyInteger(1)

====
